---- MODULE Spec2Model ----
(***************************************************************************)
(* A model of the BaNaNaS content server: the index loader                 *)
(* (index/local.py), the reload supervisor and the request handlers        *)
(* (application/bananas_server.py) and the per-connection dispatch         *)
(* (openttd/tcp_content.py).                                               *)
(*                                                                         *)
(* Bytes are sequences of naturals below 256.  A directory name that is a  *)
(* hex string (a unique-id, a stored file's md5sum) is held as the bytes   *)
(* it denotes.  A Python dict is a function; a missing key is a key that   *)
(* is not in its DOMAIN.  A Python object reference is an index into the   *)
(* sequence of the objects allocated so far.                               *)
(***************************************************************************)
EXTENDS Integers, Sequences, FiniteSets, TLC

(***************************************************************************)
(* Bounds of the model.                                                    *)
(***************************************************************************)
\* The most version files in a tree the index specification draws.
MaxFiles == 2
\* The most calls of Application.reload after construction.
MaxReloads == 3
\* The most frames the connection receives.
MaxFrames == 2
\* The frames a connection sends at most under the decoding specification.
MaxDecoded == 1
\* The frames a connection sends at most under the download specification.
MaxDownloads == 1
\* The data frames of a download that are counted.
MaxDataFrames == 5

(***************************************************************************)
(* Program constants.                                                      *)
(***************************************************************************)
CONTENT_TYPE_BASE_GRAPHICS == 1
CONTENT_TYPE_NEWGRF == 2
CONTENT_TYPE_END == 11
\* A group of entries sharing a 24-bit base may hold at most this many.
MaxCollisions == 255

ContentType == CONTENT_TYPE_BASE_GRAPHICS .. CONTENT_TYPE_END

content_type_folder_name_mapping ==
  [ct \in CONTENT_TYPE_BASE_GRAPHICS .. (CONTENT_TYPE_END - 1) |->
     CASE ct = 1 -> "base-graphics"
       [] ct = 2 -> "newgrf"
       [] ct = 3 -> "ai"
       [] ct = 4 -> "ai-library"
       [] ct = 5 -> "scenario"
       [] ct = 6 -> "heightmap"
       [] ct = 7 -> "base-sounds"
       [] ct = 8 -> "base-music"
       [] ct = 9 -> "game-script"
       [] OTHER -> "game-script-library"]

get_folder_name_from_content_type(content_type) ==
  content_type_folder_name_mapping[content_type]

\* The content type of a folder name; 0 stands for the exception raised on an
\* unknown name.
get_content_type_from_name(content_type_name) ==
  IF \E ct \in DOMAIN content_type_folder_name_mapping :
       content_type_folder_name_mapping[ct] = content_type_name
  THEN CHOOSE ct \in DOMAIN content_type_folder_name_mapping :
         content_type_folder_name_mapping[ct] = content_type_name
  ELSE 0

(***************************************************************************)
(* Dicts.                                                                  *)
(***************************************************************************)
EmptyDict == [x \in {} |-> x]

Get(f, k, default) == IF k \in DOMAIN f THEN f[k] ELSE default

RECURSIVE LittleEndian(_)
\* int.from_bytes(bytes, "little")
LittleEndian(bytes) ==
  IF Len(bytes) = 0 THEN 0
  ELSE Head(bytes) + 256 * LittleEndian(Tail(bytes))

(***************************************************************************)
(* State.                                                                  *)
(*   bootstrap_unique_id  the option --bootstrap-unique-id as bytes, <<>>  *)
(*             when it is not given                                        *)
(*   storage_kind  the option --storage: "local" or "s3"                   *)
(*   disk      the catalog tree: the folders {type-folder}/{unique-id} in  *)
(*             os.listdir order, each with its global.yaml flag and its    *)
(*             version files in os.listdir order                           *)
(*   storage   the stored blobs: the folders of the storage backend in     *)
(*             list_folder order, each with the md5sums of its files       *)
(*   by_content_id, by_content_type, by_unique_id, by_unique_id_and_md5sum *)
(*             the four live views of the Application                      *)
(*   view_build  for each live view, the number of the build it came from  *)
(*   reload_busy the flag of the asyncio.Event _reload_busy                *)
(*   reload_pc   where each caller of Application.reload is                *)
(*   worker      the reload worker process of each caller                  *)
(*   views_at_start  for each caller, the live views as they were when the *)
(*             caller took busy                                            *)
(*   queue     the frames in the asyncio.Queue of the connection           *)
(*   received  the number of frames the connection received so far         *)
(*   transport "open", "closing" (is_closing() is true) or "closed"        *)
(*             (connection_lost was called)                                *)
(*   can_write the flag of the asyncio.Event _can_write                    *)
(*   pause_task  whether a _check_closed task is pending                   *)
(*   task      the task running _process_queue: where it is, the frame it  *)
(*             handles, the position of the handler's loop, the entry it   *)
(*             is sending, the locals of the handler, and the exception    *)
(*             that ended it                                               *)
(*   started, returned  the frames whose handler started and returned, in  *)
(*             order                                                       *)
(*   sent      the reply frames written to the transport, in order         *)
(*   proxy_protocol  the option --proxy-protocol                           *)
(*   source, new_connection, buffered  of the connection: the source the   *)
(*             handlers are given, whether no data was received yet, and   *)
(*             self._data, the bytes of the frame not yet complete         *)
(*   RELOAD_SECRET, TRUST_FORWARDED_HEADERS, CDN_FALLBACK_URL, CDN_URL     *)
(*             the globals of web_routes that click_web_routes sets        *)
(*   CDN_ACTIVE_URL  the list of the CDN servers found healthy             *)
(*   health    the task running check_cdn_health: where it is, the server  *)
(*             it probes next and its local active_url                     *)
(*   responses the responses of the HTTP handlers, in order                *)
(*   IP_TO_VERSION_CACHE  the dict of bananas_server.py, as its items in   *)
(*             insertion order                                             *)
(*   call      a call of a function without state: its arguments and what  *)
(*             it returned                                                 *)
(*   opened    the streams get_stream opened for the connection, in order: *)
(*             the frame of the request, and whether the file or the body  *)
(*             the stream reads from is "open" or "closed"                 *)
(***************************************************************************)
VARIABLES bootstrap_unique_id, storage_kind, disk, storage,
          by_content_id, by_content_type, by_unique_id, by_unique_id_and_md5sum,
          view_build, reload_busy, reload_pc, worker, views_at_start,
          queue, received, transport, can_write, pause_task, task,
          started, returned, sent,
          proxy_protocol, source, new_connection, buffered,
          RELOAD_SECRET, TRUST_FORWARDED_HEADERS, CDN_FALLBACK_URL, CDN_URL,
          CDN_ACTIVE_URL, health, responses, IP_TO_VERSION_CACHE, call, opened

views == <<by_content_id, by_content_type, by_unique_id, by_unique_id_and_md5sum, view_build>>

supervisor == <<reload_busy, reload_pc, worker, views_at_start>>

connection ==
  <<queue, received, transport, can_write, pause_task, task, started, returned, sent>>

config ==
  <<bootstrap_unique_id, storage_kind, proxy_protocol,
    RELOAD_SECRET, TRUST_FORWARDED_HEADERS, CDN_FALLBACK_URL, CDN_URL>>

endpoint == <<source, new_connection, buffered>>

web == <<CDN_ACTIVE_URL, health, responses>>

\* What the catalog, the supervisor and the frames of the connection leave
\* alone.
elsewhere == <<endpoint, web, IP_TO_VERSION_CACHE, call, opened>>

vars == <<config, disk, storage, views, supervisor, connection, elsewhere>>

(***************************************************************************)
(* Loops.  A loop that only appends or assigns is written as what it       *)
(* leaves behind: a list as the items in loop order, a dict entry as the   *)
(* value of the last iteration that assigned the key.                      *)
(***************************************************************************)
Max(S) == CHOOSE x \in S : \A y \in S : y <= x

Indices(seq) == [i \in 1..Len(seq) |-> i]

RECURSIVE Concat(_, _)
\* seqs[i] \o ... \o seqs[Len(seqs)]
Concat(seqs, i) == IF i > Len(seqs) THEN <<>> ELSE seqs[i] \o Concat(seqs, i + 1)

RECURSIVE InTypeOrder(_, _)
\* The folders visited by "for content_type in ContentType: for unique_id in
\* listdir(folder of content_type)", from content type ct on.
InTypeOrder(folders, ct) ==
  IF ct >= CONTENT_TYPE_END THEN <<>>
  ELSE SelectSeq(folders, LAMBDA f : f.folder_name = get_folder_name_from_content_type(ct))
         \o InTypeOrder(folders, ct + 1)

(***************************************************************************)
(* ReloadHelper._get_md5sum_mapping: content_type -> unique_id ->          *)
(* md5sum_partial -> md5sum, from the listing of the storage backend.  A   *)
(* key exists once a file below it was seen.                               *)
(***************************************************************************)
\* md5sum[0:8] of the hex name: the first four bytes.
Md5sumPartial(md5sum) == SubSeq(md5sum, 1, 4)

MappingOfFiles(files) ==
  [md5sum_partial \in {Md5sumPartial(files[i]) : i \in 1..Len(files)} |->
     files[Max({i \in 1..Len(files) : Md5sumPartial(files[i]) = md5sum_partial})]]

\* The mapping of the folders that hold a file, in listing order.
MappingOfFolders(folders, filled) ==
  [content_type \in {get_content_type_from_name(folders[i].folder_name) : i \in filled} |->
     [unique_id \in {folders[i].unique_id :
                       i \in {j \in filled :
                                get_content_type_from_name(folders[j].folder_name)
                                  = content_type}} |->
        MappingOfFiles(
          folders[Max({i \in filled :
                         /\ get_content_type_from_name(folders[i].folder_name) = content_type
                         /\ folders[i].unique_id = unique_id})].files)]]

FilledFolders(folders) ==
  MappingOfFolders(folders, {i \in 1..Len(folders) : Len(folders[i].files) > 0})

get_md5sum_mapping(stor) == FilledFolders(InTypeOrder(stor, CONTENT_TYPE_BASE_GRAPHICS))

\* md5sum_mapping[content_type][unique_id][md5sum_partial]; <<>> stands for the
\* KeyError of a missing key.
LookupMd5sum(md5sum_mapping, content_type, unique_id, md5sum_partial) ==
  Get(Get(Get(md5sum_mapping, content_type, EmptyDict), unique_id, EmptyDict),
      md5sum_partial, <<>>)

(***************************************************************************)
(* Content ids are 32-bit values, beyond the integers TLC computes with:   *)
(* a content id is the pair <<hi, lo>> that stands for hi * 2^24 + lo,     *)
(* with lo < 2^24.                                                         *)
(***************************************************************************)
CounterShift == 24

Wide(hi, lo) == <<hi + (lo \div (2 ^ CounterShift)), lo % (2 ^ CounterShift)>>

\* i << 24
ShiftCounter(i) == Wide(i, 0)

WideAdd(a, b) == Wide(a[1] + b[1], a[2] + b[2])

(***************************************************************************)
(* Index._read_content_entry_version                                       *)
(***************************************************************************)
ResolveDependency(dependency, md5sum_mapping) ==
  LET dep_content_type == get_content_type_from_name(dependency.content_type)
  IN <<dep_content_type, dependency.unique_id,
       LookupMd5sum(md5sum_mapping, dep_content_type, dependency.unique_id,
                    dependency.md5sum_partial)>>

\* int.from_bytes(md5sum[-3:], "little")
PreContentId(md5sum) == LittleEndian(SubSeq(md5sum, Len(md5sum) - 2, Len(md5sum)))

\* What is wrong with a version file: nothing ("none"), it is not YAML
\* ("malformed"), it has no key "availability" and global.yaml has none
\* either ("no-availability"), a field exceeds the limits of the schema
\* ("over-long"), or a compatibility condition starts with neither ">=" nor
\* "<" ("bad-compatibility").
Defects == {"none", "malformed", "no-availability", "over-long", "bad-compatibility"}

\* The defects that make _read_content_entry_version raise.
RaisesInVersion(data) == data.defect \in {"over-long", "bad-compatibility"}

\* The ContentEntry of a version file whose md5sum and dependencies resolved
\* as given: [raised |-> TRUE] when one of them did not or the data is
\* refused (the version file is skipped), else the entry, its content_id
\* still 0 and its dependencies not yet calculated.  The field file names the
\* version file it was read from.
ContentEntry(content_type, unique_id, data, md5sum, dependencies) ==
  IF \/ md5sum = <<>>
     \/ \E i \in 1..Len(dependencies) :
          dependencies[i][1] = 0 \/ dependencies[i][3] = <<>>
     \/ RaisesInVersion(data)
  THEN [raised |-> TRUE]
  ELSE [raised |-> FALSE,
        entry |-> [content_id |-> Wide(0, 0),
                   content_type |-> content_type,
                   unique_id |-> unique_id,
                   upload_date |-> data.upload_date,
                   md5sum |-> md5sum,
                   raw_dependencies |-> dependencies,
                   dependencies |-> <<>>,
                   compatibility |-> data.compatibility,
                   filesize |-> data.filesize,
                   pre_content_id |-> PreContentId(md5sum),
                   file |-> <<content_type, unique_id, data.file>>]]

read_content_entry_version(content_type, unique_id, data, md5sum_mapping) ==
  ContentEntry(content_type, unique_id, data,
               LookupMd5sum(md5sum_mapping, content_type, unique_id, data.md5sum_partial),
               [i \in 1..Len(data.dependencies) |->
                  ResolveDependency(data.dependencies[i], md5sum_mapping)])

(***************************************************************************)
(* Index._read_content_entry: the entries of one unique-id folder, the     *)
(* active ones and the archived ones, each in the order of the version     *)
(* files.                                                                  *)
(***************************************************************************)
IsActive(version_data) == version_data.availability = "new-games"

\* The entries read from the version files numbered kept.
EntriesAt(read, kept) == [k \in 1..Len(kept) |-> read[kept[k]].entry]

\* The entries that were read (not skipped) and are active, or archived.
EntriesOf(folder, read, active) ==
  EntriesAt(read, SelectSeq(Indices(folder.versions),
                            LAMBDA i : /\ ~read[i].raised
                                       /\ IsActive(folder.versions[i]) = active))

SplitEntries(folder, read) ==
  [content_entries |-> EntriesOf(folder, read, TRUE),
   archived_content_entries |-> EntriesOf(folder, read, FALSE)]

read_content_entry(content_type, folder, md5sum_mapping) ==
  IF folder.blacklisted
  THEN [content_entries |-> <<>>, archived_content_entries |-> <<>>]
  ELSE SplitEntries(folder,
                    [i \in 1..Len(folder.versions) |->
                       read_content_entry_version(content_type, folder.unique_id,
                                                  folder.versions[i], md5sum_mapping)])

\* _read_content_entry raises: global.yaml is not YAML, or (the folder not
\* blacklisted) a version file is not YAML, or a version file that was not
\* skipped has no "availability".  Neither is inside the try.
FolderRaises(content_type, folder, md5sum_mapping) ==
  \/ folder.malformed
  \/ /\ ~folder.blacklisted
     /\ \E i \in 1..Len(folder.versions) :
          \/ folder.versions[i].defect = "malformed"
          \/ /\ folder.versions[i].defect = "no-availability"
             /\ ~read_content_entry_version(content_type, folder.unique_id,
                                            folder.versions[i], md5sum_mapping).raised

(***************************************************************************)
(* Index.reload                                                            *)
(***************************************************************************)
\* Reading some folder raises, which ends Index.reload.
ReadRaises(folders, md5sum_mapping) ==
  \E i \in 1..Len(folders) :
    FolderRaises(get_content_type_from_name(folders[i].folder_name), folders[i],
                 md5sum_mapping)

Tagged(entries, active) ==
  [k \in 1..Len(entries) |-> [entry |-> entries[k], active |-> active]]

\* What the two inner loops of Index.reload visit in one folder: the active
\* entries, then the archived ones.
FolderEntries(read) ==
  Tagged(read.content_entries, TRUE) \o Tagged(read.archived_content_entries, FALSE)

EntriesOfFolders(folders, md5sum_mapping) ==
  Concat([i \in 1..Len(folders) |->
            FolderEntries(
              read_content_entry(get_content_type_from_name(folders[i].folder_name),
                                 folders[i], md5sum_mapping))], 1)

\* The entries in the order Index.reload visits them.
LoadedEntries(tree, md5sum_mapping) ==
  EntriesOfFolders(InTypeOrder(tree, CONTENT_TYPE_BASE_GRAPHICS), md5sum_mapping)

\* by_unique_id_and_md5sum[content_type][unique_id][md5sum] = content_entry,
\* in both loops.
ByUniqueIdAndMd5sum(loaded) ==
  LET all == 1..Len(loaded)
      e(o) == loaded[o].entry
  IN [ct \in {e(o).content_type : o \in all} |->
        [uid \in {e(o).unique_id : o \in {x \in all : e(x).content_type = ct}} |->
           [md5sum \in {e(o).md5sum : o \in {x \in all : /\ e(x).content_type = ct
                                                          /\ e(x).unique_id = uid}} |->
              Max({o \in all : /\ e(o).content_type = ct
                               /\ e(o).unique_id = uid
                               /\ e(o).md5sum = md5sum})]]]

\* by_content_type[content_type].append(content_entry), in the first loop.
ByContentType(loaded) ==
  LET active == {o \in 1..Len(loaded) : loaded[o].active}
  IN [ct \in {loaded[o].entry.content_type : o \in active} |->
        SelectSeq(Indices(loaded),
                  LAMBDA o : loaded[o].active /\ loaded[o].entry.content_type = ct)]

\* by_unique_id[content_type][content_entry.unique_id] = content_entry, in the
\* first loop.
ByUniqueId(loaded) ==
  LET active == {o \in 1..Len(loaded) : loaded[o].active}
      e(o) == loaded[o].entry
  IN [ct \in {e(o).content_type : o \in active} |->
        [uid \in {e(o).unique_id : o \in {x \in active : e(x).content_type = ct}} |->
           Max({o \in active : e(o).content_type = ct /\ e(o).unique_id = uid})]]

\* content_ids[content_entry.pre_content_id].append(content_entry), in both
\* loops.
ContentIds(loaded) ==
  [base \in {loaded[o].entry.pre_content_id : o \in 1..Len(loaded)} |->
     SelectSeq(Indices(loaded), LAMBDA o : loaded[o].entry.pre_content_id = base)]

\* The pre_content_id of the entries numbered first.
BasesAt(loaded, first) == [k \in 1..Len(first) |-> loaded[first[k]].entry.pre_content_id]

\* The keys of content_ids in the order they were inserted.
BaseOrder(loaded) ==
  BasesAt(loaded,
          SelectSeq(Indices(loaded),
                    LAMBDA o : \A x \in 1..(o - 1) :
                                  loaded[x].entry.pre_content_id
                                    # loaded[o].entry.pre_content_id))

\* The members of content_entries in the order of their positions.
Arranged(content_entries, position) ==
  [i \in 1..Len(content_entries) |->
     content_entries[CHOOSE p \in 1..Len(content_entries) : position[p] = i - 1]]

\* The position a stable sort by date gives each member: after the members of
\* an earlier date, and after the members of the same date that precede it.
StablePositions(date) ==
  [p \in 1..Len(date) |->
     Cardinality({q \in 1..Len(date) : \/ date[q] < date[p]
                                       \/ date[q] = date[p] /\ q < p})]

\* A variant that leaves the group in discovery order.
Unsorted(loaded, content_entries) == content_entries

\* sorted(content_entries, key=lambda x: x.upload_date)
SortedByUploadDate(loaded, content_entries) ==
  Arranged(content_entries,
           StablePositions([p \in 1..Len(content_entries) |->
                              loaded[content_entries[p]].entry.upload_date]))

\* (i << 24) + content_id, for the i-th (from 0) entry of the sorted group.
ContentIdOf(i, base) == WideAdd(ShiftCounter(i), Wide(0, base))

\* A variant that already refuses a group of MaxCollisions entries.
RefusesFullGroup(content_entries) == Len(content_entries) >= MaxCollisions

TooManyCollisions(content_entries) == Len(content_entries) > MaxCollisions

\* The assignments of one group: the i-th entry of the sorted group gets the
\* counter i.
GroupAssignments(base, group) ==
  [i \in 1..Len(group) |->
     [content_id |-> ContentIdOf(i - 1, base), content_entry |-> group[i]]]

AssignmentsIn(loaded, content_ids, base_order) ==
  Concat([k \in 1..Len(base_order) |->
            GroupAssignments(base_order[k],
                             SortedByUploadDate(loaded, content_ids[base_order[k]]))], 1)

\* The assignments "content_entry.content_id = ...; by_content_id[...] =
\* content_entry" of the loop over content_ids.items(), in order.
Assignments(loaded) == AssignmentsIn(loaded, ContentIds(loaded), BaseOrder(loaded))

RECURSIVE KeepsMissingDependencies(_, _, _, _)
\* A variant that keeps a dependency that is not loaded, as content id 0.
KeepsMissingDependencies(raw_dependencies, i, objs, by_key) ==
  IF i > Len(raw_dependencies) THEN <<>>
  ELSE IF Get(Get(Get(by_key, raw_dependencies[i][1], EmptyDict),
                  raw_dependencies[i][2], EmptyDict),
              raw_dependencies[i][3], 0) = 0
       THEN <<Wide(0, 0)>> \o KeepsMissingDependencies(raw_dependencies, i + 1, objs, by_key)
       ELSE <<objs[by_key[raw_dependencies[i][1]][raw_dependencies[i][2]]
                         [raw_dependencies[i][3]]].content_id>>
              \o KeepsMissingDependencies(raw_dependencies, i + 1, objs, by_key)

RECURSIVE ResolvedDependencies(_, _, _, _)
\* The loop of ContentEntry.calculate_dependencies, from the i-th raw
\* dependency on.
ResolvedDependencies(raw_dependencies, i, objs, by_key) ==
  IF i > Len(raw_dependencies) THEN <<>>
  ELSE IF Get(Get(Get(by_key, raw_dependencies[i][1], EmptyDict),
                  raw_dependencies[i][2], EmptyDict),
              raw_dependencies[i][3], 0) = 0
       THEN ResolvedDependencies(raw_dependencies, i + 1, objs, by_key)
       ELSE <<objs[by_key[raw_dependencies[i][1]][raw_dependencies[i][2]]
                         [raw_dependencies[i][3]]].content_id>>
              \o ResolvedDependencies(raw_dependencies, i + 1, objs, by_key)

calculate_dependencies(content_entry, objs, by_key) ==
  [content_entry EXCEPT
     !.dependencies = ResolvedDependencies(content_entry.raw_dependencies, 1, objs,
                                           by_key)]

DictValues(f) == {f[k] : k \in DOMAIN f}

\* by_content_id[content_entry.content_id] = content_entry, in order.
ByContentId(assignments) ==
  [cid \in {assignments[a].content_id : a \in 1..Len(assignments)} |->
     assignments[Max({a \in 1..Len(assignments) :
                        assignments[a].content_id = cid})].content_entry]

\* The entries with the content id they were assigned, and without the
\* attribute pre_content_id, which the loops deleted.
WithContentId(loaded, assignments) ==
  [o \in 1..Len(loaded) |->
     [content_id |-> assignments[CHOOSE a \in 1..Len(assignments) :
                                   assignments[a].content_entry = o].content_id,
      content_type |-> loaded[o].entry.content_type,
      unique_id |-> loaded[o].entry.unique_id,
      upload_date |-> loaded[o].entry.upload_date,
      md5sum |-> loaded[o].entry.md5sum,
      raw_dependencies |-> loaded[o].entry.raw_dependencies,
      dependencies |-> loaded[o].entry.dependencies,
      compatibility |-> loaded[o].entry.compatibility,
      filesize |-> loaded[o].entry.filesize,
      file |-> loaded[o].entry.file]]

\* The last loop of Index.reload: the entries by_content_id holds calculate
\* their dependencies.
WithDependencies(with_id, by_cid, by_key) ==
  [o \in 1..Len(with_id) |->
     IF o \in DictValues(by_cid)
     THEN calculate_dependencies(with_id[o], with_id, by_key)
     ELSE with_id[o]]

\* "by_unique_id_and_md5sum[content_type]" in calculate_dependencies: the
\* defaultdict gains the content type of every raw dependency it is asked for.
Touched(by_key, loaded, by_cid) ==
  [ct \in (DOMAIN by_key)
            \cup UNION {{loaded[o].entry.raw_dependencies[i][1] :
                           i \in 1..Len(loaded[o].entry.raw_dependencies)} :
                        o \in DictValues(by_cid)} |->
     Get(by_key, ct, EmptyDict)]

Assigned(loaded, assignments, by_key) ==
  [raised |-> FALSE,
   objs |-> WithDependencies(WithContentId(loaded, assignments),
                             ByContentId(assignments), by_key),
   by_content_id |-> ByContentId(assignments),
   by_content_type |-> ByContentType(loaded),
   by_unique_id |-> ByUniqueId(loaded),
   by_unique_id_and_md5sum |-> Touched(by_key, loaded, ByContentId(assignments))]

\* The index of the loaded entries: [raised |-> TRUE] when a group is too
\* large, else the four views and the objects (objs) they refer to by index.
IndexOf(loaded, content_ids) ==
  IF \E base \in DOMAIN content_ids : TooManyCollisions(content_ids[base])
  THEN [raised |-> TRUE]
  ELSE Assigned(loaded, Assignments(loaded), ByUniqueIdAndMd5sum(loaded))

IndexLoaded(loaded) == IndexOf(loaded, ContentIds(loaded))

\* Index.reload(md5sum_mapping) on the tree tree.
IndexReload(tree, md5sum_mapping) ==
  IF ReadRaises(InTypeOrder(tree, CONTENT_TYPE_BASE_GRAPHICS), md5sum_mapping)
  THEN [raised |-> TRUE]
  ELSE IndexLoaded(LoadedEntries(tree, md5sum_mapping))

\* ReloadHelper.reload: build the md5sum mapping, then the index.
ReloadHelperReload(tree, stor) == IndexReload(tree, get_md5sum_mapping(stor))

(***************************************************************************)
(* The trees and storage listings the index specification draws.           *)
(***************************************************************************)
\* A digest with the given first two bytes and last three bytes.
Md5(first, second, tail) == <<first, second, 0, 0, 0, 0, 0, 0, 0, 0, 0, 0, 0>> \o tail

\* Two digests with the same last three bytes (base 0xABCDEF) and a third with
\* the largest base (0xFFFFFF).
MA == Md5(1, 0, <<239, 205, 171>>)
MB == Md5(2, 0, <<239, 205, 171>>)
MC == Md5(3, 0, <<255, 255, 255>>)

U1 == <<1, 2, 3, 4>>
U2 == <<5, 6, 7, 8>>

Folders ==
  {[folder_name |-> "base-graphics", unique_id |-> U1],
   [folder_name |-> "newgrf", unique_id |-> U1],
   [folder_name |-> "newgrf", unique_id |-> U2]}

DepA == [content_type |-> "newgrf", unique_id |-> U1, md5sum_partial |-> Md5sumPartial(MA)]
DepB == [content_type |-> "newgrf", unique_id |-> U2, md5sum_partial |-> Md5sumPartial(MB)]

\* What one version file may hold.
FileOptions ==
  [folder : Folders,
   md5sum_partial : {Md5sumPartial(MA), Md5sumPartial(MB), Md5sumPartial(MC)},
   upload_date : 1..2,
   availability : {"new-games", "archived"}]

RECURSIVE GroupFolders(_, _, _, _, _)
\* The tree holding the version files fs, from the i-th on: a file joins the
\* folder it names, a folder is listed where its first file is, and the file's
\* name is its number.  The first file declares first_dependencies, the others
\* declare none; the folders in blacklist are blacklisted.
GroupFolders(tree, fs, i, first_dependencies, blacklist) ==
  IF i > Len(fs) THEN tree
  ELSE LET f == fs[i]
           version == [file |-> i,
                       md5sum_partial |-> f.md5sum_partial,
                       upload_date |-> f.upload_date,
                       availability |-> f.availability,
                       defect |-> "none",
                       compatibility |-> IF "compatibility" \in DOMAIN f
                                         THEN f.compatibility ELSE EmptyDict,
                       filesize |-> IF "filesize" \in DOMAIN f THEN f.filesize ELSE 0,
                       dependencies |-> IF i = 1 THEN first_dependencies ELSE <<>>]
           at == {k \in 1..Len(tree) : /\ tree[k].folder_name = f.folder.folder_name
                                      /\ tree[k].unique_id = f.folder.unique_id}
       IN GroupFolders(
            IF at = {}
            THEN Append(tree, [folder_name |-> f.folder.folder_name,
                               unique_id |-> f.folder.unique_id,
                               blacklisted |-> f.folder \in blacklist,
                               malformed |-> FALSE,
                               versions |-> <<version>>])
            ELSE [tree EXCEPT ![CHOOSE k \in at : TRUE].versions = Append(@, version)],
            fs, i + 1, first_dependencies, blacklist)

\* Every folder holds the blobs MA and MB; newgrf/U2 lacks MC, so that a
\* version file or a dependency naming it there does not resolve.
SmallStorage ==
  <<[folder_name |-> "base-graphics", unique_id |-> U1, files |-> <<MA, MB, MC>>],
    [folder_name |-> "newgrf", unique_id |-> U1, files |-> <<MA, MB, MC>>],
    [folder_name |-> "newgrf", unique_id |-> U2, files |-> <<MA, MB>>]>>

SmallInputs ==
  {[disk |-> GroupFolders(<<>>, fs, 1, first_dependencies, {}), storage |-> SmallStorage] :
     fs \in UNION {[1..n -> FileOptions] : n \in 0..MaxFiles},
     first_dependencies \in {<<>>, <<DepA, DepB>>}}

\* The trees of fewer files in which newgrf/U1 is blacklisted.
BlacklistInputs ==
  {[disk |-> GroupFolders(<<>>, fs, 1, <<>>, {[folder_name |-> "newgrf", unique_id |-> U1]}),
    storage |-> SmallStorage] :
     fs \in UNION {[1..n -> FileOptions] : n \in 1..(MaxFiles - 1)}}

\* n blobs of newgrf/U1 that all end in FF FF FF, and m that end in 01 00 00;
\* the version files are listed latest first.
CollidingDigest(k) == Md5(k % 256, k \div 256, <<255, 255, 255>>)
OtherDigest(k) == Md5(k % 256, k \div 256, <<1, 0, 0>>)

CollidingInput(n, m) ==
  LET digest == [k \in 1..(n + m) |-> IF k <= n THEN CollidingDigest(k) ELSE OtherDigest(k)]
  IN [disk |-> <<[folder_name |-> "newgrf",
                  unique_id |-> U1,
                  blacklisted |-> FALSE,
                  malformed |-> FALSE,
                  versions |-> [k \in 1..(n + m) |->
                                  [file |-> k,
                                   md5sum_partial |-> Md5sumPartial(digest[k]),
                                   upload_date |-> n + m - k,
                                   availability |-> IF k % 2 = 0 THEN "new-games" ELSE "archived",
                                   defect |-> "none",
                                   compatibility |-> EmptyDict,
                                   filesize |-> 0,
                                   dependencies |-> <<>>]]]>>,
      storage |-> <<[folder_name |-> "newgrf", unique_id |-> U1, files |-> digest]>>]

CollidingInputs ==
  {CollidingInput(n, m) : n \in {MaxCollisions, MaxCollisions + 1}, m \in {0, 1}}

IndexInputs == SmallInputs \cup BlacklistInputs \cup CollidingInputs

(***************************************************************************)
(* os.listdir returns the names of a directory in arbitrary order: the     *)
(* orders in which the folders and the version files of a tree may be      *)
(* enumerated.                                                             *)
(***************************************************************************)
Reordered(seq) ==
  {[i \in 1..Len(seq) |-> seq[order[i]]] : order \in Permutations(1..Len(seq))}

\* The trees that list the folders as tree does, and the version files of each
\* folder in any order.
VersionsReordered(tree) ==
  {[i \in 1..Len(tree) |-> [tree[i] EXCEPT !.versions = versions[i]]] :
     versions \in {vs \in [1..Len(tree) ->
                             UNION {Reordered(tree[i].versions) : i \in 1..Len(tree)}] :
                     \A i \in 1..Len(tree) : vs[i] \in Reordered(tree[i].versions)}}

Listings(tree) == UNION {VersionsReordered(folders) : folders \in Reordered(tree)}

\* The number of version files of a tree.
FileCount(tree) ==
  Cardinality(UNION {{<<i, k>> : k \in 1..Len(tree[i].versions)} : i \in 1..Len(tree)})

(***************************************************************************)
(* The event loop runs one task or callback at a time, up to its next      *)
(* await that suspends: while the task of the connection is running,       *)
(* nothing else runs.                                                      *)
(***************************************************************************)
TaskRunning ==
  task.pc \in {"get", "loop", "send", "resumed",
               "list", "list_capture", "list_iter", "content", "content_data",
               "never"}

EventLoopFree == ~TaskRunning

(***************************************************************************)
(* The reload supervisor: Application.reload.                              *)
(***************************************************************************)
\* The callers of Application.reload (POST /reload requests); caller c calls
\* after caller c - 1 did.
Callers == 1..MaxReloads

\* The tuple a worker returns, as the live process unpickles it: each view
\* holds the entries themselves.
Pickled(result) ==
  [by_content_id |->
     [cid \in DOMAIN result.by_content_id |-> result.objs[result.by_content_id[cid]]],
   by_content_type |->
     [ct \in DOMAIN result.by_content_type |->
        [k \in 1..Len(result.by_content_type[ct]) |->
           result.objs[result.by_content_type[ct][k]]]],
   by_unique_id |->
     [ct \in DOMAIN result.by_unique_id |->
        [uid \in DOMAIN result.by_unique_id[ct] |->
           result.objs[result.by_unique_id[ct][uid]]]],
   by_unique_id_and_md5sum |->
     [ct \in DOMAIN result.by_unique_id_and_md5sum |->
        [uid \in DOMAIN result.by_unique_id_and_md5sum[ct] |->
           [md5sum \in DOMAIN result.by_unique_id_and_md5sum[ct][uid] |->
              result.objs[result.by_unique_id_and_md5sum[ct][uid][md5sum]]]]]]

LiveViews ==
  [by_content_id |-> by_content_id,
   by_content_type |-> by_content_type,
   by_unique_id |-> by_unique_id,
   by_unique_id_and_md5sum |-> by_unique_id_and_md5sum,
   view_build |-> view_build]

\* A variant of the assignment that leaves by_unique_id_and_md5sum as it is.
ReboundButOne(live, result, build) ==
  [by_content_id |-> result.by_content_id,
   by_content_type |-> result.by_content_type,
   by_unique_id |-> result.by_unique_id,
   by_unique_id_and_md5sum |-> live.by_unique_id_and_md5sum,
   view_build |-> [by_content_id |-> build,
                   by_content_type |-> build,
                   by_unique_id |-> build,
                   by_unique_id_and_md5sum |-> live.view_build.by_unique_id_and_md5sum]]

\* The tuple assignment of Application.reload: all four views are rebound to
\* what the worker of build number build returned.
Rebound(live, result, build) ==
  [by_content_id |-> result.by_content_id,
   by_content_type |-> result.by_content_type,
   by_unique_id |-> result.by_unique_id,
   by_unique_id_and_md5sum |-> result.by_unique_id_and_md5sum,
   view_build |-> [by_content_id |-> build,
                   by_content_type |-> build,
                   by_unique_id |-> build,
                   by_unique_id_and_md5sum |-> build]]

SetViews(v) ==
  /\ by_content_id' = v.by_content_id
  /\ by_content_type' = v.by_content_type
  /\ by_unique_id' = v.by_unique_id
  /\ by_unique_id_and_md5sum' = v.by_unique_id_and_md5sum
  /\ view_build' = v.view_build

NoWorker == [state |-> "none"]

\* The builds started so far.
BuildsStarted == Cardinality({c \in Callers : worker[c].state # "none"})

\* asyncio.Event.set(): the flag is set, and every task waiting in wait() is
\* awakened; an awakened task returns from wait() when it next runs.
EventSet(pc) ==
  IF reload_busy THEN pc
  ELSE [c \in Callers |-> IF pc[c] = "waiting" THEN "woken" ELSE pc[c]]

\* From "self._reload_busy.clear()" to "await task": busy is taken, the cache
\* is cleared and the worker of caller c is started.
TakeBusy(c) ==
  /\ reload_busy' = FALSE
  /\ reload_pc' = [reload_pc EXCEPT ![c] = "building"]
  /\ worker' = [worker EXCEPT ![c] = [state |-> "running", build |-> BuildsStarted + 1]]
  /\ views_at_start' = [views_at_start EXCEPT ![c] = LiveViews]

\* "await self._reload_busy.wait()" of caller c: wait() returns at once when
\* the event is set, and suspends the caller otherwise.
ReloadBegins(c) ==
  /\ reload_pc[c] = "idle"
  /\ IF reload_busy
     THEN TakeBusy(c)
     ELSE /\ reload_pc' = [reload_pc EXCEPT ![c] = "waiting"]
          /\ UNCHANGED <<reload_busy, worker, views_at_start>>
  /\ UNCHANGED <<config, disk, storage, views, connection>>

\* Caller c calls reload().
ReloadCall(c) ==
  /\ EventLoopFree
  /\ \A earlier \in 1..(c - 1) : reload_pc[earlier] # "idle"
  /\ ReloadBegins(c)
  /\ UNCHANGED elsewhere

\* An awakened caller returns from wait().
ReloadResume(c) ==
  /\ EventLoopFree
  /\ reload_pc[c] = "woken"
  /\ TakeBusy(c)
  /\ UNCHANGED <<config, elsewhere, disk, storage, views, connection>>

\* The worker process of caller c ends: ReloadHelper.reload returned or raised,
\* or the process crashed.
WorkerFinish(c) ==
  /\ worker[c].state = "running"
  /\ \E crashed \in BOOLEAN :
       worker' = [worker EXCEPT ![c] =
                    [state |-> "done",
                     build |-> worker[c].build,
                     crashed |-> crashed,
                     result |-> IF crashed THEN [raised |-> TRUE]
                                ELSE ReloadHelperReload(disk, storage)]]
  /\ UNCHANGED <<config, elsewhere, disk, storage, views, reload_busy, reload_pc, views_at_start, connection>>

\* "await task" returns the tuple: the views are rebound, and the finally
\* clause sets the event.
ReloadPublishes(c) ==
  /\ EventLoopFree
  /\ reload_pc[c] = "building"
  /\ worker[c].state = "done"
  /\ ~worker[c].result.raised
  /\ SetViews(Rebound(LiveViews, Pickled(worker[c].result), worker[c].build))
  /\ reload_busy' = TRUE
  /\ reload_pc' = [EventSet(reload_pc) EXCEPT ![c] = "returned"]
  /\ UNCHANGED <<config, disk, storage, worker, views_at_start, connection>>

\* reload() returns to a caller that does nothing more.
ReloadPublish(c) ==
  /\ ReloadPublishes(c)
  /\ UNCHANGED elsewhere

\* "await task" raises: only the finally clause runs.
ReloadFails(c) ==
  /\ EventLoopFree
  /\ reload_pc[c] = "building"
  /\ worker[c].state = "done"
  /\ worker[c].result.raised
  /\ reload_busy' = TRUE
  /\ reload_pc' = [EventSet(reload_pc) EXCEPT ![c] = "raised"]
  /\ UNCHANGED <<config, disk, storage, views, worker, views_at_start, connection>>

\* reload() raises in a caller that does nothing more.
ReloadFail(c) ==
  /\ ReloadFails(c)
  /\ UNCHANGED elsewhere


(***************************************************************************)
(* Application.get_by_content_id, get_by_unique_id and                     *)
(* get_by_unique_id_and_md5sum, on the live views.                         *)
(***************************************************************************)
None == [is |-> "None"]
KeyError == [is |-> "KeyError"]

get_by_content_id(content_id) == Get(by_content_id, content_id, None)

get_by_unique_id(content_type, unique_id) ==
  IF content_type \in DOMAIN by_unique_id
  THEN Get(by_unique_id[content_type], unique_id, None)
  ELSE KeyError

get_by_unique_id_and_md5sum(content_type, unique_id, md5sum) ==
  IF content_type \in DOMAIN by_unique_id_and_md5sum
  THEN Get(Get(by_unique_id_and_md5sum[content_type], unique_id, EmptyDict), md5sum, None)
  ELSE KeyError

(***************************************************************************)
(* receive_PACKET_CONTENT_CLIENT_INFO_LIST: the versions of the client.    *)
(* openttd_version is a 32-bit value, held like a content id as the pair   *)
(* <<hi, lo>> of its top 8 bits and its low 24 bits.  A string is the      *)
(* sequence of its characters; branch_versions is the sequence of its      *)
(* items <<branch, version string>> in dict order.  A version is a         *)
(* sequence of integers, None is <<>> (as falsy as the empty list).        *)
(***************************************************************************)
\* openttd_version >> n, for n from 20 on.
ShiftRight(v, n) ==
  IF n >= CounterShift THEN v[1] \div (2 ^ (n - CounterShift))
  ELSE v[1] * (2 ^ (CounterShift - n)) + (v[2] \div (2 ^ n))

\* x & mask, for a mask 2^k - 1.
BitAnd(x, mask) == x % (mask + 1)

VERSION_SENTINEL == <<255, 16777215>>

\* The threshold "16 + 11" of the major version.
LegacyMajorLimit == 27

\* A variant that takes the major version of a client from 12 on as sent.
VanillaVersionAsSent(openttd_version) ==
  IF BitAnd(ShiftRight(openttd_version, 24), 255) > LegacyMajorLimit
  THEN <<BitAnd(ShiftRight(openttd_version, 24), 255),
         BitAnd(ShiftRight(openttd_version, 20), 15)>>
  ELSE <<BitAnd(ShiftRight(openttd_version, 28), 15),
         BitAnd(ShiftRight(openttd_version, 24), 15),
         BitAnd(ShiftRight(openttd_version, 20), 15)>>

\* The version of a client that sent a plain openttd_version.
VanillaVersion(openttd_version) ==
  IF BitAnd(ShiftRight(openttd_version, 24), 255) > LegacyMajorLimit
  THEN <<BitAnd(ShiftRight(openttd_version, 24), 255) - 16,
         BitAnd(ShiftRight(openttd_version, 20), 15)>>
  ELSE <<BitAnd(ShiftRight(openttd_version, 28), 15),
         BitAnd(ShiftRight(openttd_version, 24), 15),
         BitAnd(ShiftRight(openttd_version, 20), 15)>>

\* The characters str.isdecimal() and str.isnumeric() accept: the digits, and
\* beyond them characters such as the superscript two, which is numeric but
\* which int() refuses.
DecimalValue ==
  [c \in {"0", "1", "2", "3", "4", "5", "6", "7", "8", "9"} |->
     CASE c = "0" -> 0 [] c = "1" -> 1 [] c = "2" -> 2 [] c = "3" -> 3 [] c = "4" -> 4
       [] c = "5" -> 5 [] c = "6" -> 6 [] c = "7" -> 7 [] c = "8" -> 8 [] OTHER -> 9]

DigitOf == [d \in 0..9 |-> CHOOSE c \in DOMAIN DecimalValue : DecimalValue[c] = d]

RECURSIVE Decimal(_)
\* str(n) of a natural number.
Decimal(n) == IF n < 10 THEN <<DigitOf[n]>> ELSE Append(Decimal(n \div 10), DigitOf[n % 10])

NumericOnly == {"superscript-2"}

RECURSIVE SplitDots(_, _, _)
\* version.split("."), from the i-th character on, part being the characters
\* read since the last dot.
SplitDots(str, i, part) ==
  IF i > Len(str) THEN <<part>>
  ELSE IF str[i] = "." THEN <<part>> \o SplitDots(str, i + 1, <<>>)
       ELSE SplitDots(str, i + 1, Append(part, str[i]))

\* p.isnumeric()
IsNumeric(p) ==
  /\ Len(p) > 0
  /\ \A i \in 1..Len(p) : p[i] \in (DOMAIN DecimalValue) \cup NumericOnly

\* int(p) succeeds on a part that isnumeric() accepted.
IntAccepts(p) == \A i \in 1..Len(p) : p[i] \in DOMAIN DecimalValue

RECURSIVE ParseInt(_, _)
\* int(p) of the first n characters of a part of digits.
ParseInt(p, n) == IF n = 0 THEN 0 ELSE 10 * ParseInt(p, n - 1) + DecimalValue[p[n]]

\* What the loop over branch_versions does with one version string: "return"
\* when a part is not numeric, "raise" when int() refuses a part, else "ok".
BranchOutcome(parts) ==
  IF \E k \in 1..Len(parts) : ~IsNumeric(parts[k]) THEN "return"
  ELSE IF \E k \in 1..Len(parts) : ~IntAccepts(parts[k]) THEN "raise"
       ELSE "ok"

BranchVersion(parts) == [k \in 1..Len(parts) |-> ParseInt(parts[k], Len(parts[k]))]

\* The versions of all branches, the loop having met no bad version.
BranchVersions(branch_versions) ==
  [branch \in {branch_versions[i][1] : i \in 1..Len(branch_versions)} |->
     BranchVersion(SplitDots(
       branch_versions[CHOOSE i \in 1..Len(branch_versions) :
                         branch_versions[i][1] = branch][2], 1, <<>>))]

\* The outcome of the first version string that is not "ok", if any.
FirstBad(outcomes) ==
  IF \A i \in 1..Len(outcomes) : outcomes[i] = "ok" THEN "ok"
  ELSE outcomes[CHOOSE i \in 1..Len(outcomes) :
                  /\ outcomes[i] # "ok"
                  /\ \A j \in 1..(i - 1) : outcomes[j] = "ok"]

\* The dict versions of the handler, with how the decoding ended: "ok", or
\* "return" (the handler returns without a reply), or "raise".
Decoded(outcome, branch_versions) ==
  [outcome |-> outcome,
   versions |-> IF outcome = "ok" THEN BranchVersions(branch_versions) ELSE EmptyDict]

ClientVersions(openttd_version, branch_versions) ==
  IF openttd_version # VERSION_SENTINEL
  THEN [outcome |-> "ok", versions |-> [branch \in {"vanilla"} |->
                                          VanillaVersion(openttd_version)]]
  ELSE Decoded(FirstBad([i \in 1..Len(branch_versions) |->
                           BranchOutcome(SplitDots(branch_versions[i][2], 1, <<>>))]),
               branch_versions)

(***************************************************************************)
(* receive_PACKET_CONTENT_CLIENT_INFO_LIST: the compatibility check.       *)
(***************************************************************************)
\* a < b for two Python lists of integers.
ListLess(a, b) ==
  \/ \E i \in 1..Len(a) :
       /\ i <= Len(b)
       /\ a[i] < b[i]
       /\ \A j \in 1..(i - 1) : a[j] = b[j]
  \/ /\ Len(a) < Len(b)
     /\ \A j \in 1..Len(a) : a[j] = b[j]

\* A variant that accepts the client whose version is the upper bound.
InRangeInclusive(version, range) ==
  /\ ~(range[1] # <<>> /\ ListLess(version, range[1]))
  /\ ~(range[2] # <<>> /\ ListLess(range[2], version))

\* Neither "version < min_version" nor "version >= max_version" skips the
\* branch.
InRange(version, range) ==
  /\ ~(range[1] # <<>> /\ ListLess(version, range[1]))
  /\ ~(range[2] # <<>> /\ ~ListLess(version, range[2]))

\* A variant that takes an entry for every client of a branch it names.
CompatibleWithBranch(compatibility, versions) ==
  \/ DOMAIN compatibility = {}
  \/ \E name \in DOMAIN versions : name \in DOMAIN compatibility

\* The entry passes the check: its compatibility is empty, or the loop over
\* the versions breaks at some branch.
Compatible(compatibility, versions) ==
  \/ DOMAIN compatibility = {}
  \/ \E name \in DOMAIN versions :
       /\ name \in DOMAIN compatibility
       /\ InRange(versions[name], compatibility[name])

(***************************************************************************)
(* OpenTTDProtocolReceive.receive_packet: a frame, the bytes data_received *)
(* put on the queue, is decoded into the request the handler is called     *)
(* with.  A frame that receive_packet rejects with a PacketInvalid is the   *)
(* request [type |-> "invalid"]; one on which it raises another exception  *)
(* is [type |-> "error"].  A 32-bit value is the pair of its top 8 and its *)
(* low 24 bits.                                                            *)
(***************************************************************************)
PACKET_CONTENT_END == 7
CONTENT_TYPE_SCENARIO == 5
CONTENT_TYPE_HEIGHTMAP == 6

\* PacketTCPContentType(type).name
PacketName ==
  <<"PACKET_CONTENT_CLIENT_INFO_ID", "PACKET_CONTENT_CLIENT_INFO_EXTID",
    "PACKET_CONTENT_CLIENT_INFO_EXTID_MD5", "PACKET_CONTENT_SERVER_INFO",
    "PACKET_CONTENT_CLIENT_CONTENT", "PACKET_CONTENT_SERVER_CONTENT">>

\* The packet types OpenTTDProtocolReceive has a receive_ method for.
Receivable == {0, 1, 2, 3, 5}

\* struct.unpack("<I", bytes)
ReadUint32(bytes) == <<bytes[4], bytes[1] + 256 * bytes[2] + 65536 * bytes[3]>>

\* struct.unpack(">I", bytes)
UnpackBig(bytes) == <<bytes[1], 65536 * bytes[2] + 256 * bytes[3] + bytes[4]>>

\* value.to_bytes(4, "big") and value.to_bytes(4, "little")
ToBytesBig(value) ==
  <<value[1], value[2] \div 65536, (value[2] \div 256) % 256, value[2] % 256>>

ToBytesLittle(value) ==
  <<value[2] % 256, (value[2] \div 256) % 256, value[2] \div 65536, value[1]>>

\* A variant that reads the unique id of every content type as it is sent.
UniqueIdAsSent(content_type, value) == ToBytesLittle(value)

\* The stored unique id of a content_info, its u32 having been read.
UniqueIdOf(content_type, value) ==
  IF content_type \in {CONTENT_TYPE_NEWGRF, CONTENT_TYPE_SCENARIO, CONTENT_TYPE_HEIGHTMAP}
  THEN ToBytesBig(value)
  ELSE ToBytesLittle(value)

\* write_uint32: struct.pack("<I", value)
WriteUint32(value) == ToBytesLittle(value)

\* send_PACKET_CONTENT_SERVER_INFO: the four bytes the unique id is sent as.
SentUniqueId(content_type, unique_id) ==
  WriteUint32(IF content_type \in {CONTENT_TYPE_NEWGRF, CONTENT_TYPE_SCENARIO,
                                   CONTENT_TYPE_HEIGHTMAP}
              THEN UnpackBig(unique_id)
              ELSE ReadUint32(unique_id))

Rejected(outcome) == [outcome |-> outcome, info |-> <<>>, rest |-> <<>>]

\* A content_info is read: its fields, and the bytes after it.
WasRead(info, rest) == [outcome |-> "ok", info |-> info, rest |-> rest]

\* The content type and unique id of a content_info, and the md5sum if there
\* is one: the content type is checked before the unique id is read.
ReadExtId(data, has_md5sum) ==
  IF Len(data) < 1 THEN Rejected("invalid")
  ELSE IF data[1] >= CONTENT_TYPE_END THEN Rejected("invalid")
  ELSE IF data[1] \notin ContentType THEN Rejected("error")
  ELSE IF Len(data) < 5 THEN Rejected("invalid")
  ELSE IF ~has_md5sum
       THEN WasRead([content_type |-> data[1],
                     unique_id |-> UniqueIdOf(data[1], ReadUint32(SubSeq(data, 2, 5)))],
                    SubSeq(data, 6, Len(data)))
       ELSE IF Len(data) < 21 THEN Rejected("invalid")
            ELSE WasRead([content_type |-> data[1],
                          unique_id |-> UniqueIdOf(data[1], ReadUint32(SubSeq(data, 2, 5))),
                          md5sum |-> SubSeq(data, 6, 21)],
                         SubSeq(data, 22, Len(data)))

\* One pass of the loop of _receive_client_info; kind tells the fields.
ReadInfo(data, kind) ==
  IF kind = "content_id"
  THEN IF Len(data) < 4 THEN Rejected("invalid")
       ELSE WasRead([content_id |-> ReadUint32(SubSeq(data, 1, 4))],
                    SubSeq(data, 5, Len(data)))
  ELSE ReadExtId(data, kind = "md5sum")

RECURSIVE ReceiveClientInfo(_, _, _)
\* The content_infos read so far with those that follow.
InfosWith(info, following) ==
  IF following.outcome # "ok" THEN following
  ELSE [following EXCEPT !.content_infos = <<info>> \o @]

InfosAfter(first, count, kind) ==
  IF first.outcome # "ok"
  THEN [outcome |-> first.outcome, content_infos |-> <<>>, rest |-> <<>>]
  ELSE InfosWith(first.info, ReceiveClientInfo(first.rest, count - 1, kind))

\* _receive_client_info
ReceiveClientInfo(data, count, kind) ==
  IF count = 0 THEN [outcome |-> "ok", content_infos |-> <<>>, rest |-> data]
  ELSE InfosAfter(ReadInfo(data, kind), count, kind)

\* The request of a packet of content_infos, no byte being left over.
InfosRequest(type, read) ==
  IF read.outcome # "ok" THEN [type |-> read.outcome]
  ELSE IF Len(read.rest) # 0 THEN [type |-> "invalid"]
       ELSE [type |-> PacketName[type], content_infos |-> read.content_infos]

\* receive_PACKET_CONTENT_CLIENT_INFO_LIST, which returns no branch_versions.
ReceiveList(data) ==
  IF Len(data) < 5 THEN [type |-> "invalid"]
  ELSE IF data[1] >= CONTENT_TYPE_END THEN [type |-> "invalid"]
  ELSE IF data[1] \notin ContentType THEN [type |-> "error"]
  ELSE IF Len(data) # 5 THEN [type |-> "invalid"]
  ELSE [type |-> "PACKET_CONTENT_CLIENT_INFO_LIST",
        content_type |-> data[1],
        openttd_version |-> ReadUint32(SubSeq(data, 2, 5))]

\* The receive_ method of the packet type on the bytes after the type: the
\* count of content ids is a uint16, that of the other keys a uint8.
ReceiveBody(type, data) ==
  CASE type = 0 -> ReceiveList(data)
    [] type \in {1, 5} ->
         IF Len(data) < 2 THEN [type |-> "invalid"]
         ELSE InfosRequest(type, ReceiveClientInfo(SubSeq(data, 3, Len(data)),
                                                  data[1] + 256 * data[2], "content_id"))
    [] OTHER ->
         IF Len(data) < 1 THEN [type |-> "invalid"]
         ELSE InfosRequest(type, ReceiveClientInfo(SubSeq(data, 2, Len(data)), data[1],
                                                  IF type = 3 THEN "md5sum" ELSE "unique_id"))

\* receive_packet
ReceivePacket(data) ==
  IF Len(data) < 2 THEN [type |-> "invalid"]
  ELSE IF data[1] + 256 * data[2] # Len(data) THEN [type |-> "invalid"]
  ELSE IF Len(data) < 3 THEN [type |-> "invalid"]
  ELSE IF data[3] >= PACKET_CONTENT_END THEN [type |-> "invalid"]
  ELSE IF data[3] \notin Receivable THEN [type |-> "invalid"]
  ELSE ReceiveBody(data[3], SubSeq(data, 4, Len(data)))

\* The frame on the queue: its bytes with what receive_packet makes of them.
Carrying(request, data) ==
  CASE "content_infos" \in DOMAIN request ->
         [type |-> request.type, content_infos |-> request.content_infos, data |-> data]
    [] "content_type" \in DOMAIN request ->
         [type |-> request.type, content_type |-> request.content_type,
          openttd_version |-> request.openttd_version, data |-> data]
    [] OTHER -> [type |-> request.type, data |-> data]

Queued(data) == Carrying(ReceivePacket(data), data)

(***************************************************************************)
(* The frames a client sends.  A frame that receive_packet rejects is      *)
(* [type |-> "invalid"].                                                   *)
(***************************************************************************)
Frames ==
  {[type |-> "PACKET_CONTENT_CLIENT_INFO_ID",
    content_infos |-> <<[content_id |-> <<0, 11259375>>],
                        [content_id |-> <<1, 11259375>>]>>],
   [type |-> "PACKET_CONTENT_CLIENT_INFO_EXTID",
    content_infos |-> <<[content_type |-> CONTENT_TYPE_NEWGRF, unique_id |-> U2],
                        [content_type |-> CONTENT_TYPE_BASE_GRAPHICS, unique_id |-> U1]>>],
   [type |-> "PACKET_CONTENT_CLIENT_INFO_EXTID_MD5",
    content_infos |-> <<[content_type |-> CONTENT_TYPE_NEWGRF, unique_id |-> U1,
                         md5sum |-> MB],
                        [content_type |-> CONTENT_TYPE_NEWGRF, unique_id |-> U1,
                         md5sum |-> MA]>>],
   [type |-> "invalid"]}

\* What the handler of a request looks up for a content_info, and the live
\* view it reads for it.
Lookup(type, content_info) ==
  CASE type = "PACKET_CONTENT_CLIENT_INFO_ID" ->
         get_by_content_id(content_info.content_id)
    [] type = "PACKET_CONTENT_CLIENT_INFO_EXTID" ->
         get_by_unique_id(content_info.content_type, content_info.unique_id)
    [] type = "PACKET_CONTENT_CLIENT_INFO_EXTID_MD5" ->
         get_by_unique_id_and_md5sum(content_info.content_type, content_info.unique_id,
                                     content_info.md5sum)

ViewRead(type) ==
  CASE type = "PACKET_CONTENT_CLIENT_INFO_ID" -> "by_content_id"
    [] type = "PACKET_CONTENT_CLIENT_INFO_EXTID" -> "by_unique_id"
    [] type = "PACKET_CONTENT_CLIENT_INFO_EXTID_MD5" -> "by_unique_id_and_md5sum"
    [] type = "PACKET_CONTENT_CLIENT_INFO_LIST" -> "by_content_type"
    [] type = "PACKET_CONTENT_CLIENT_CONTENT" -> "by_content_id"

(***************************************************************************)
(* The connection: OpenTTDProtocolTCPContent.                              *)
(***************************************************************************)
\* The task before it handles a frame: suspended in "await self._queue.get()".
NoRequest == [type |-> ""]

NoStream == [filesize |-> 0, position |-> 0]

\* The frame being sent is a SERVER_INFO frame.
InfoFrame == [part |-> "info", offset |-> 0, length |-> 0]

TaskWaiting ==
  [pc |-> "get_wait", frame |-> 0, type |-> "", content_infos |-> <<>>, i |-> 0,
   entry |-> None, build |-> 0, start |-> 0,
   request |-> NoRequest, versions |-> EmptyDict,
   bootstrap |-> None, bootstrap_build |-> 0, list |-> <<>>, list_build |-> 0,
   stream |-> NoStream, payload |-> InfoFrame, cause |-> "", raised |-> ""]

\* The content_infos of a request; CLIENT_INFO_LIST has none.
ContentInfosOf(request) ==
  IF "content_infos" \in DOMAIN request THEN request.content_infos ELSE <<>>

\* Where the handler of a request of the given type starts.
HandlerStart(type) ==
  CASE type = "PACKET_CONTENT_CLIENT_INFO_LIST" -> "list"
    [] type = "PACKET_CONTENT_CLIENT_CONTENT" -> "content"
    [] OTHER -> "loop"

\* A variant whose try of CLIENT_CONTENT turns a cancellation into
\* SocketClosed as well.
HandlerRaisesClosed(type, exc) ==
  IF type = "PACKET_CONTENT_CLIENT_CONTENT" THEN "SocketClosed" ELSE exc

\* The exception that leaves the handler of the given type when exc is
\* raised inside it: the try of CLIENT_CONTENT passes asyncio.CancelledError
\* and SocketClosed on and turns every other exception into SocketClosed;
\* the other handlers catch nothing.
HandlerRaises(type, exc) ==
  IF type = "PACKET_CONTENT_CLIENT_CONTENT"
  THEN CASE exc = "CancelledError" -> "CancelledError"
         [] exc = "StreamReadError" -> "SocketClosed"
         [] exc = "SocketClosed" -> "SocketClosed"
         [] OTHER -> "SocketClosed"
  ELSE exc

\* The task after exc left the handler: _process_queue catches SocketClosed
\* and Exception and returns; a CancelledError ends the task as cancelled.
\* cause is what raised inside the handler.
Failed(cause, exc) ==
  [task EXCEPT !.pc = IF exc = "CancelledError" THEN "cancelled" ELSE "stopped",
               !.cause = cause,
               !.raised = exc]

\* transport.abort() and transport.close()
Shut(t) == IF t = "open" THEN "closing" ELSE t

\* The characters "::ffff:" that begin an IPv4-mapped IPv6 address.
MappedPrefix == <<":", ":", "f", "f", "f", "f", ":">>

IsMapped(ip) ==
  /\ Len(ip) > Len(MappedPrefix)
  /\ SubSeq(ip, 1, Len(MappedPrefix)) = MappedPrefix

\* ipaddress.ip_address of a dotted quad: the four numbers.
IPv4Address(ip) == [version |-> 4, packed |-> BranchVersion(SplitDots(ip, 1, <<>>))]

\* Source.__init__: ip is what ipaddress.ip_address makes of the text, an
\* IPv4-mapped IPv6 address becoming the IPv4 address.  An IPv6 address that
\* is not mapped is held as its text.
Source(addr, ip, port) ==
  [addr |-> addr,
   ip |-> IF IsMapped(ip) THEN IPv4Address(SubSeq(ip, Len(MappedPrefix) + 1, Len(ip)))
          ELSE IF \E k \in 1..Len(ip) : ip[k] = ":" THEN [version |-> 6, text |-> ip]
               ELSE IPv4Address(ip),
   port |-> port]

\* transport.get_extra_info("peername"): the load balancer, 10.0.0.9:40000.
PeerName == [host |-> <<"1", "0", ".", "0", ".", "0", ".", "9">>, port |-> 40000]

\* __init__ and connection_made.
ConnectionMade ==
  /\ source = Source(PeerName, PeerName.host, PeerName.port)
  /\ new_connection = TRUE
  /\ buffered = <<>>
  /\ queue = <<>>
  /\ received = 0
  /\ transport = "open"
  /\ can_write = TRUE
  /\ pause_task = FALSE
  /\ task = TaskWaiting
  /\ started = <<>>
  /\ returned = <<>>
  /\ sent = <<>>
  /\ opened = <<>>

\* data_received: receive_data puts the complete frames of the data on the
\* queue; the task waiting in get() is scheduled.
DataReceived(frames) ==
  /\ EventLoopFree
  /\ transport = "open"
  /\ received + Len(frames) <= MaxFrames
  /\ queue' = queue \o [k \in 1..Len(frames) |->
                          [frame |-> received + k, request |-> frames[k]]]
  /\ received' = received + Len(frames)
  /\ UNCHANGED <<config, elsewhere, disk, storage, views, supervisor,
                 transport, can_write, pause_task, task, started, returned, sent>>

(***************************************************************************)
(* data_received on bytes: _detect_source_ip_port on the first read, then  *)
(* receive_data on what is buffered with what was read.                    *)
(***************************************************************************)
\* bytes.decode() of the ASCII characters a PROXY line is made of; any other
\* ASCII character is "?".
Chr ==
  [b \in 0..127 |->
     CASE b = 32 -> " " [] b = 46 -> "." [] b = 58 -> ":"
       [] b = 13 -> "CR" [] b = 10 -> "LF"
       [] b \in 48..57 -> DigitOf[b - 48]
       [] b = 67 -> "C" [] b = 79 -> "O" [] b = 80 -> "P" [] b = 82 -> "R"
       [] b = 84 -> "T" [] b = 88 -> "X" [] b = 89 -> "Y" [] b = 102 -> "f"
       [] OTHER -> "?"]

Decode(bytes) == [k \in 1..Len(bytes) |-> Chr[bytes[k]]]

\* b"PROXY" and b"\r\n"
PROXY == <<80, 82, 79, 88, 89>>
CRLF == <<13, 10>>

\* data.find(b"\r\n"): the index, from 0, of the first occurrence, or -1.
Find(data, sub) ==
  IF \E k \in 1..(Len(data) - Len(sub) + 1) : SubSeq(data, k, k + Len(sub) - 1) = sub
  THEN (CHOOSE k \in 1..(Len(data) - Len(sub) + 1) :
          /\ SubSeq(data, k, k + Len(sub) - 1) = sub
          /\ \A j \in 1..(k - 1) : SubSeq(data, j, j + Len(sub) - 1) # sub) - 1
  ELSE -1

\* data[start:] and data[0:stop], a negative stop counting from the end.
SliceFrom(data, start) == SubSeq(data, start + 1, Len(data))

SliceTo(data, stop) ==
  SubSeq(data, 1, IF stop < 0 THEN Len(data) + stop ELSE stop)

RECURSIVE Split(_, _, _)
\* proxy.split(" "), from the i-th character on.
Split(str, i, part) ==
  IF i > Len(str) THEN <<part>>
  ELSE IF str[i] = " " THEN <<part>> \o Split(str, i + 1, <<>>)
       ELSE Split(str, i + 1, Append(part, str[i]))

\* ipaddress.ip_address accepts the text: a dotted quad, or a text with a
\* colon, which stands for an IPv6 address.
IsDottedQuad(parts) ==
  /\ Len(parts) = 4
  /\ \A k \in 1..4 :
       /\ Len(parts[k]) \in 1..3
       /\ IntAccepts(parts[k])
       /\ ParseInt(parts[k], Len(parts[k])) <= 255

IsAddress(ip) ==
  IF IsMapped(ip)
  THEN IsDottedQuad(SplitDots(SubSeq(ip, Len(MappedPrefix) + 1, Len(ip)), 1, <<>>))
  ELSE IF \E k \in 1..Len(ip) : ip[k] = ":"
       THEN \A k \in 1..Len(ip) : ip[k] \in (DOMAIN DecimalValue) \cup {":", "f"}
       ELSE IsDottedQuad(SplitDots(ip, 1, <<>>))

\* "(_, _, ip, _, port, _) = proxy.split(" ")" and the Source made of them;
\* the unpacking, int() and ip_address raise ValueError.
SourceOfFields(fields, addr) ==
  IF Len(fields) # 6 THEN [raised |-> TRUE]
  ELSE IF Len(fields[5]) = 0 \/ ~IntAccepts(fields[5]) THEN [raised |-> TRUE]
  ELSE IF ~IsAddress(fields[3]) THEN [raised |-> TRUE]
  ELSE [raised |-> FALSE,
        source |-> Source(addr, fields[3], ParseInt(fields[5], Len(fields[5])))]

\* The line up to proxy_end and the data after it.
Detected(parsed, data) ==
  IF parsed.raised THEN [raised |-> TRUE]
  ELSE [raised |-> FALSE, source |-> parsed.source, data |-> data]

\* data[0:n]
Prefix(data, n) == SubSeq(data, 1, IF Len(data) < n THEN Len(data) ELSE n)

\* A variant that inspects the data whether or not the option is set.
InspectedAlways(enabled, data) == data

\* What _detect_source_ip_port looks at: nothing when the option is off.
Inspected(enabled, data) == IF enabled THEN data ELSE <<>>

\* _detect_source_ip_port: the source and the data it returns, or the
\* exception it raises.  A byte over 127 does not decode.
DetectSourceIpPort(enabled, current, data) ==
  IF Prefix(Inspected(enabled, data), 5) # PROXY
  THEN [raised |-> FALSE, source |-> current, data |-> data]
  ELSE IF \E k \in 1..Len(SliceTo(data, Find(data, CRLF))) :
            SliceTo(data, Find(data, CRLF))[k] > 127
       THEN [raised |-> TRUE]
       ELSE Detected(SourceOfFields(Split(Decode(SliceTo(data, Find(data, CRLF))), 1, <<>>),
                                    current.addr),
                     SliceFrom(data, Find(data, CRLF) + 2))

RECURSIVE ReceiveData(_)
\* The frames put on the queue after one more was.
After(frame, following) == [following EXCEPT !.frames = <<frame>> \o @]

\* receive_data: the frames it puts on the queue and the data it returns.  On
\* a length of 0 the loop neither stops nor shortens the data: it never ends.
ReceiveData(data) ==
  IF Len(data) <= 2 THEN [frames |-> <<>>, data |-> data, ends |-> TRUE]
  ELSE IF Len(data) < data[1] + 256 * data[2]
       THEN [frames |-> <<>>, data |-> data, ends |-> TRUE]
       ELSE IF data[1] + 256 * data[2] = 0
            THEN [frames |-> <<>>, data |-> data, ends |-> FALSE]
            ELSE After(SliceTo(data, data[1] + 256 * data[2]),
                       ReceiveData(SliceFrom(data, data[1] + 256 * data[2])))

\* The frames as the queue holds them, numbered from received on.
Numbered(frames) ==
  [k \in 1..Len(frames) |-> [frame |-> received + k, request |-> Queued(frames[k])]]

\* A variant that keeps no bytes between the reads.
ReassembledDropping(reassembly) ==
  /\ queue' = queue \o Numbered(reassembly.frames)
  /\ received' = received + Len(reassembly.frames)
  /\ buffered' = <<>>
  /\ task' = IF reassembly.ends THEN task ELSE [task EXCEPT !.pc = "never"]

\* "self._data = self.receive_data(self._queue, self._data + data)"; the event
\* loop runs nothing after a call that never ends.
Reassembled(reassembly) ==
  /\ queue' = queue \o Numbered(reassembly.frames)
  /\ received' = received + Len(reassembly.frames)
  /\ buffered' = reassembly.data
  /\ task' = IF reassembly.ends THEN task ELSE [task EXCEPT !.pc = "never"]

\* data_received with what _detect_source_ip_port made of the data: an
\* exception of it leaves data_received, and the event loop closes the
\* transport.
Detection(detected) ==
  IF detected.raised
  THEN /\ transport' = Shut(transport)
       /\ UNCHANGED <<source, new_connection, buffered, queue, received, task>>
  ELSE /\ source' = detected.source
       /\ new_connection' = FALSE
       /\ Reassembled(ReceiveData(buffered \o detected.data))
       /\ UNCHANGED transport

\* data_received, whoever the peer is.
Receives(data) ==
  /\ EventLoopFree
  /\ transport = "open"
  /\ IF new_connection
     THEN Detection(DetectSourceIpPort(proxy_protocol, source, data))
     ELSE /\ Reassembled(ReceiveData(buffered \o data))
          /\ UNCHANGED <<source, new_connection, transport>>
  /\ UNCHANGED <<config, disk, storage, views, supervisor,
                 can_write, pause_task, started, returned, sent,
                 web, IP_TO_VERSION_CACHE, opened>>

\* data_received
data_received(data) == Receives(data) /\ UNCHANGED call

\* A variant of get() that takes the frame put last.
GetLast(q) == [data |-> q[Len(q)], rest |-> SubSeq(q, 1, Len(q) - 1)]

\* self._queue.get() on a queue that holds a frame.
QueueGet(q) == [data |-> Head(q), rest |-> Tail(q)]

\* A variant in which the task goes on with its loop.
Continuing == [task EXCEPT !.pc = "get"]

\* The task stops: it returned from _process_queue.
Stopped == [task EXCEPT !.pc = "stopped"]

\* "data = await self._queue.get()" and what follows up to the handler's loop:
\* the task suspends on an empty queue; else it takes a frame, closes the
\* transport and returns if receive_packet rejects it with a PacketInvalid,
\* ends on any other exception of receive_packet, which nothing catches, and
\* calls the handler otherwise.
TaskGet ==
  /\ task.pc \in {"get", "get_wait"}
  /\ IF queue = <<>>
     THEN /\ task.pc = "get"
          /\ task' = [task EXCEPT !.pc = "get_wait"]
          /\ UNCHANGED <<queue, transport, started>>
     ELSE /\ queue' = QueueGet(queue).rest
          /\ IF QueueGet(queue).data.request.type \in {"invalid", "error"}
             THEN /\ transport' = IF QueueGet(queue).data.request.type = "invalid"
                                  THEN Shut(transport) ELSE transport
                  /\ task' = IF QueueGet(queue).data.request.type = "invalid"
                             THEN Stopped ELSE Failed("receive_packet", "ValueError")
                  /\ UNCHANGED started
             ELSE /\ task' = [TaskWaiting EXCEPT
                              !.pc = HandlerStart(QueueGet(queue).data.request.type),
                              !.frame = QueueGet(queue).data.frame,
                              !.type = QueueGet(queue).data.request.type,
                              !.content_infos = ContentInfosOf(QueueGet(queue).data.request),
                              !.i = 1,
                              !.request = QueueGet(queue).data.request,
                              !.start = view_build[ViewRead(QueueGet(queue).data.request.type)]]
                  /\ started' = Append(started, QueueGet(queue).data.frame)
                  /\ UNCHANGED transport
  /\ UNCHANGED <<config, elsewhere, disk, storage, views, supervisor,
                 received, can_write, pause_task, returned, sent>>

\* One pass of "for content_info in content_infos" up to the send: the handler
\* returns after the last content_info; a lookup that raises ends the task
\* with transport.abort(); an entry that is found is sent.
TaskLoop ==
  /\ task.pc = "loop"
  /\ IF task.i > Len(task.content_infos)
     THEN /\ task' = [task EXCEPT !.pc = "get"]
          /\ returned' = Append(returned, task.frame)
          /\ UNCHANGED transport
     ELSE /\ UNCHANGED returned
          /\ IF Lookup(task.type, task.content_infos[task.i]) = KeyError
             THEN /\ task' = Failed("KeyError", HandlerRaises(task.type, "KeyError"))
                  /\ transport' = Shut(transport)
             ELSE /\ UNCHANGED transport
                  /\ IF Lookup(task.type, task.content_infos[task.i]) = None
                     THEN task' = [task EXCEPT !.i = @ + 1]
                     ELSE task' = [task EXCEPT
                                     !.pc = "send",
                                     !.entry = Lookup(task.type, task.content_infos[task.i]),
                                     !.build = view_build[ViewRead(task.type)],
                                     !.payload = InfoFrame]
  /\ UNCHANGED <<config, elsewhere, disk, storage, views, supervisor,
                 queue, received, can_write, pause_task, started, sent>>

\* A variant of send_packet that does not wait for the event.
TaskSendAnyway ==
  /\ task.pc = "send"
  /\ task' = [task EXCEPT !.pc = "resumed"]
  /\ UNCHANGED <<config, elsewhere, disk, storage, views, supervisor,
                 queue, received, transport, can_write, pause_task, started, returned, sent>>

\* "await self._can_write.wait()" of send_packet: the task goes on when the
\* event is set and suspends when it is not.
TaskSend ==
  /\ task.pc = "send"
  /\ task' = [task EXCEPT !.pc = IF can_write THEN "resumed" ELSE "wait"]
  /\ UNCHANGED <<config, elsewhere, disk, storage, views, supervisor,
                 queue, received, transport, can_write, pause_task, started, returned, sent>>

\* Where the handler goes on after send_packet returned: the handlers of
\* one SERVER_INFO per item at the next item; CLIENT_INFO_LIST at the read of
\* by_content_type after the bootstrap entry (i = 0) and at the next entry of
\* the list otherwise; CLIENT_CONTENT at the loop over the stream after the
\* header and a data frame, and at the next item after the empty frame.
AfterSend ==
  CASE task.type = "PACKET_CONTENT_CLIENT_INFO_LIST" ->
         [task EXCEPT !.pc = IF task.i = 0 THEN "list_capture" ELSE "list_iter",
                      !.i = @ + 1, !.entry = None]
    [] task.type = "PACKET_CONTENT_CLIENT_CONTENT" ->
         IF task.payload.part = "end"
         THEN [task EXCEPT !.pc = "content", !.i = @ + 1, !.entry = None,
                           !.stream = NoStream]
         ELSE [task EXCEPT !.pc = "content_data"]
    [] OTHER -> [task EXCEPT !.pc = "loop", !.i = @ + 1, !.entry = None]

\* Stream.__exit__ of storage/s3.py on the body the stream reads from: "pass".
Exit(fp) == fp

\* The with statement of CLIENT_CONTENT is left: __exit__ of the stream
\* opened last is called.
Exited(streams) == [streams EXCEPT ![Len(streams)].fp = Exit(@)]

\* The handler is inside the with statement: at a send or at the loop over
\* the stream.
InWith ==
  /\ task.type = "PACKET_CONTENT_CLIENT_CONTENT"
  /\ task.pc \in {"send", "wait", "resumed_wait", "resumed", "content_data"}

\* send_packet after wait() returned: SocketClosed when the transport is
\* closing, which ends the task with transport.abort(); else the frame is
\* written, and the transport may call pause_writing.
TaskWrite ==
  /\ task.pc = "resumed"
  /\ IF transport # "open"
     THEN /\ task' = Failed("closing", HandlerRaises(task.type, "SocketClosed"))
          /\ UNCHANGED <<can_write, pause_task, sent>>
     ELSE /\ sent' = Append(sent, [frame |-> task.frame,
                                   content_id |-> task.entry.content_id,
                                   build |-> task.build,
                                   start |-> task.start,
                                   payload |-> task.payload])
          /\ task' = AfterSend
          /\ \E pause \in BOOLEAN :
               /\ can_write' = (can_write /\ ~pause)
               /\ pause_task' = (pause_task \/ pause)
  /\ opened' = IF InWith /\ (transport # "open" \/ task.payload.part = "end")
               THEN Exited(opened) ELSE opened
  /\ UNCHANGED <<config, endpoint, web, IP_TO_VERSION_CACHE, call,
                 disk, storage, views, supervisor,
                 queue, received, transport, started, returned>>

(***************************************************************************)
(* Application.receive_PACKET_CONTENT_CLIENT_INFO_LIST                     *)
(***************************************************************************)
\* The handler returns.
HandlerReturns ==
  /\ task' = [task EXCEPT !.pc = "get"]
  /\ returned' = Append(returned, task.frame)
  /\ UNCHANGED transport

\* exc is raised in the handler outside of a send.
HandlerFails(cause, exc) ==
  /\ task' = Failed(cause, HandlerRaises(task.type, exc))
  /\ transport' = Shut(transport)
  /\ UNCHANGED returned

\* From the bootstrap lookup to the first await: the bootstrap entry, when
\* one is configured, asked for and found, is sent; a base-graphics request
\* with a bootstrap id raises when by_unique_id has no base graphics.
ListBootstrap(versions, found) ==
  IF found = KeyError THEN HandlerFails("KeyError", "KeyError")
  ELSE /\ UNCHANGED <<transport, returned>>
       /\ IF found = None
          THEN task' = [task EXCEPT !.pc = "list_capture", !.versions = versions]
          ELSE task' = [task EXCEPT !.pc = "send",
                                    !.versions = versions,
                                    !.i = 0,
                                    !.entry = found,
                                    !.build = view_build.by_unique_id,
                                    !.bootstrap = found,
                                    !.bootstrap_build = view_build.by_unique_id,
                                    !.payload = InfoFrame]

ListDecoded(decoded) ==
  CASE decoded.outcome = "return" -> HandlerReturns
    [] decoded.outcome = "raise" -> HandlerFails("ValueError", "ValueError")
    [] OTHER ->
         ListBootstrap(decoded.versions,
                       IF /\ task.request.content_type = CONTENT_TYPE_BASE_GRAPHICS
                          /\ bootstrap_unique_id # <<>>
                       THEN get_by_unique_id(CONTENT_TYPE_BASE_GRAPHICS,
                                             bootstrap_unique_id)
                       ELSE None)

\* The handler up to its first await.  Called with the keyword arguments of
\* a decoder that returns no branch_versions, the call itself raises.
ListBegin ==
  /\ task.pc = "list"
  /\ IF "branch_versions" \notin DOMAIN task.request
     THEN HandlerFails("call", "TypeError")
     ELSE ListDecoded(ClientVersions(task.request.openttd_version,
                                     task.request.branch_versions))
  /\ UNCHANGED <<config, elsewhere, disk, storage, views, supervisor,
                 queue, received, can_write, pause_task, started, sent>>

\* "self._by_content_type.get(content_type, [])": the list the loop runs over.
ListCapture ==
  /\ task.pc = "list_capture"
  /\ task' = [task EXCEPT !.pc = "list_iter",
                          !.list = Get(by_content_type, task.request.content_type, <<>>),
                          !.list_build = view_build.by_content_type]
  /\ UNCHANGED <<config, elsewhere, disk, storage, views, supervisor,
                 queue, received, transport, can_write, pause_task, started, returned,
                 sent>>

\* "content_entry == bootstrap_content_entry": ContentEntry defines no __eq__,
\* so this holds of one and the same object only, an object of one build.
IsBootstrapEntry(content_entry, build) ==
  /\ task.bootstrap # None
  /\ content_entry = task.bootstrap
  /\ build = task.bootstrap_build

\* One pass of the loop over the list up to the send.
ListNext ==
  /\ task.pc = "list_iter"
  /\ IF task.i > Len(task.list)
     THEN HandlerReturns
     ELSE /\ UNCHANGED <<transport, returned>>
          /\ IF \/ IsBootstrapEntry(task.list[task.i], task.list_build)
                \/ ~Compatible(task.list[task.i].compatibility, task.versions)
             THEN task' = [task EXCEPT !.i = @ + 1]
             ELSE task' = [task EXCEPT !.pc = "send",
                                       !.entry = task.list[task.i],
                                       !.build = task.list_build,
                                       !.payload = InfoFrame]
  /\ UNCHANGED <<config, elsewhere, disk, storage, views, supervisor,
                 queue, received, can_write, pause_task, started, sent>>

(***************************************************************************)
(* Application.receive_PACKET_CONTENT_CLIENT_CONTENT with                  *)
(* send_PACKET_CONTENT_SERVER_CONTENT and the Stream of the storage.       *)
(* A frame of the reply is [part, offset, length]: the header, the data    *)
(* frame with the length bytes of the blob from offset on, or the empty    *)
(* frame that ends the file.                                               *)
(***************************************************************************)
SEND_MTU == 1460

\* The bytes of the stored object of an entry; the index does not compare it
\* with the filesize of the entry.
BlobSize(content_entry) ==
  CASE content_entry.md5sum = MA -> 4096
    [] content_entry.md5sum = MB -> 1457
    [] OTHER -> 0

\* A variant of the Stream that is at its end one chunk early.
EofEarly(stream) == stream.filesize <= SEND_MTU - 3

\* Stream.eof()
Eof(stream) == stream.filesize = 0

\* The bytes fp.read(count) returns when the stream has read position bytes
\* of a blob of size bytes.
ReadLength(size, position, count) ==
  IF size - position < count THEN size - position ELSE count

\* What get_stream opens: the file of Stream.__init__ (storage/local.py) or
\* the body of the response of get_object (storage/s3.py).
StreamOf(frame) == [frame |-> frame, fp |-> "open"]

\* "with self.storage.get_stream(content_entry) as stream" and the header
\* frame.  The Stream of storage/local.py has no __enter__, so the with
\* statement raises; the one of storage/s3.py is entered unless get_object
\* raises, and counts down from the ContentLength of the object.
ContentOpen(content_entry) ==
  IF storage_kind = "local"
  THEN /\ HandlerFails("with", "AttributeError")
       /\ opened' = Append(opened, StreamOf(task.frame))
  ELSE \/ /\ HandlerFails("get_stream", "ClientError")
          /\ UNCHANGED opened
       \/ /\ opened' = Append(opened, StreamOf(task.frame))
          /\ task' = [task EXCEPT !.pc = "send",
                                   !.entry = content_entry,
                                   !.build = view_build.by_content_id,
                                   !.stream = [filesize |-> BlobSize(content_entry),
                                               position |-> 0],
                                   !.payload = [part |-> "header", offset |-> 0,
                                                length |-> 0]]
          /\ UNCHANGED <<transport, returned>>

\* One pass of "for content_info in content_infos" up to the first send.
ContentFound(content_entry) ==
  IF content_entry = None
  THEN /\ task' = [task EXCEPT !.i = @ + 1]
       /\ UNCHANGED <<transport, returned, opened>>
  ELSE ContentOpen(content_entry)

ContentBegin ==
  /\ task.pc = "content"
  /\ IF task.i > Len(task.content_infos)
     THEN HandlerReturns /\ UNCHANGED opened
     ELSE ContentFound(get_by_content_id(task.content_infos[task.i].content_id))
  /\ UNCHANGED <<config, endpoint, web, IP_TO_VERSION_CACHE, call,
                 disk, storage, views, supervisor,
                 queue, received, can_write, pause_task, started, sent>>

\* The data frame of stream.read(SEND_MTU - 3), length bytes long.
ContentData(length) ==
  [task EXCEPT !.pc = "send",
               !.stream = [filesize |-> task.stream.filesize - length,
                           position |-> task.stream.position + length],
               !.payload = [part |-> "data", offset |-> task.stream.position,
                            length |-> length]]

\* "while not stream.eof()" after a frame was sent: the empty frame at the
\* end of the stream; else a read, which raises StreamReadError when the
\* connection to the storage breaks, and the data frame.
ContentRead ==
  /\ task.pc = "content_data"
  /\ IF Eof(task.stream)
     THEN /\ task' = [task EXCEPT !.pc = "send",
                                  !.payload = [part |-> "end", offset |-> 0, length |-> 0]]
          /\ UNCHANGED <<transport, returned, opened>>
     ELSE \/ /\ HandlerFails("read", "StreamReadError")
             /\ opened' = Exited(opened)
          \/ /\ task' = ContentData(ReadLength(BlobSize(task.entry), task.stream.position,
                                               SEND_MTU - 3))
             /\ UNCHANGED <<transport, returned, opened>>
  /\ UNCHANGED <<config, endpoint, web, IP_TO_VERSION_CACHE, call,
                 disk, storage, views, supervisor,
                 queue, received, can_write, pause_task, started, sent>>

\* asyncio.Event.set() of _can_write: the task waiting in wait() is awakened.
Awakened == IF task.pc = "wait" THEN [task EXCEPT !.pc = "resumed_wait"] ELSE task

\* The awakened task runs again.
TaskResume ==
  /\ task.pc = "resumed_wait"
  /\ task' = [task EXCEPT !.pc = "resumed"]
  /\ UNCHANGED <<config, elsewhere, disk, storage, views, supervisor,
                 queue, received, transport, can_write, pause_task, started, returned, sent>>

\* resume_writing: the write buffer drained.
ResumeWriting ==
  /\ EventLoopFree
  /\ transport = "open"
  /\ ~can_write
  /\ pause_task' = FALSE
  /\ can_write' = TRUE
  /\ task' = Awakened
  /\ UNCHANGED <<config, elsewhere, disk, storage, views, supervisor,
                 queue, received, transport, started, returned, sent>>

\* A variant of the watchdog that returns without setting the event.
CheckClosedOnly ==
  /\ EventLoopFree
  /\ pause_task
  /\ transport \in {"closing", "closed"}
  /\ pause_task' = FALSE
  /\ UNCHANGED <<config, elsewhere, disk, storage, views, supervisor,
                 queue, received, transport, can_write, task, started, returned, sent>>

\* _check_closed after its sleep, is_closing() being true (it is for a
\* transport that is closing and for one that is closed): the event is set
\* and the watchdog returns.
CheckClosed ==
  /\ EventLoopFree
  /\ pause_task
  /\ transport \in {"closing", "closed"}
  /\ pause_task' = FALSE
  /\ can_write' = TRUE
  /\ task' = Awakened
  /\ UNCHANGED <<config, elsewhere, disk, storage, views, supervisor,
                 queue, received, transport, started, returned, sent>>

\* The peer closes the connection: the transport is closing.
PeerClose ==
  /\ EventLoopFree
  /\ transport = "open"
  /\ transport' = "closing"
  /\ UNCHANGED <<config, elsewhere, disk, storage, views, supervisor,
                 queue, received, can_write, pause_task, task, started, returned, sent>>

\* connection_lost: the task is cancelled.
ConnectionLost ==
  /\ EventLoopFree
  /\ transport = "closing"
  /\ transport' = "closed"
  /\ task' = IF task.pc = "stopped" THEN task
             ELSE Failed("cancel", HandlerRaises(task.type, "CancelledError"))
  /\ opened' = IF InWith THEN Exited(opened) ELSE opened
  /\ UNCHANGED <<config, endpoint, web, IP_TO_VERSION_CACHE, call,
                 disk, storage, views, supervisor,
                 queue, received, can_write, pause_task, started, returned, sent>>

\* The garbage collector finalizes a stream the handler has left behind, at
\* some time of its own: the file or the body is closed.
Finalize ==
  /\ \E k \in 1..Len(opened) :
       /\ opened[k].fp = "open"
       /\ ~(InWith /\ k = Len(opened))
       /\ opened' = [opened EXCEPT ![k].fp = "closed"]
  /\ UNCHANGED <<config, endpoint, web, IP_TO_VERSION_CACHE, call,
                 disk, storage, views, supervisor, connection>>

(***************************************************************************)
(* The server after construction: Application.__init__ has run the first   *)
(* reload (build 0) on the tree boot_tree and nobody holds busy.           *)
(***************************************************************************)
\* The four views are those of the tuple result.
ViewsAre(result) ==
  /\ by_content_id = result.by_content_id
  /\ by_content_type = result.by_content_type
  /\ by_unique_id = result.by_unique_id
  /\ by_unique_id_and_md5sum = result.by_unique_id_and_md5sum

(***************************************************************************)
(* click_web_routes.  A URL is the list of its pieces, "http://" being a   *)
(* piece of its own wherever it occurs; a secret is a record.              *)
(***************************************************************************)
\* The task running check_cdn_health was not created.
NoHealthTask ==
  [pc |-> "none", i |-> 0, active_url |-> <<>>, statuses |-> <<>>, last |-> <<>>, cycles |-> 0]

\* The task before its first step: in "await asyncio.sleep(1)".
HealthTaskCreated ==
  [pc |-> "sleep_1", i |-> 0, active_url |-> <<>>, statuses |-> <<>>, last |-> <<>>, cycles |-> 0]

\* list(set(cdn_url)): the urls without repetition, in any order.
Deduplicated(cdn_url) ==
  {urls \in UNION {[1..n -> {cdn_url[k] : k \in 1..Len(cdn_url)}] : n \in 0..Len(cdn_url)} :
     /\ {urls[k] : k \in 1..Len(urls)} = {cdn_url[k] : k \in 1..Len(cdn_url)}
     /\ \A j, k \in 1..Len(urls) : urls[j] = urls[k] => j = k}

\* The globals after click_web_routes returned; it raises, and the server
\* does not start, when no fallback is given to several urls or to none.
click_web_routes(reload_secret, trust_forwarded_headers, cdn_fallback_url, cdn_url) ==
  /\ RELOAD_SECRET = reload_secret
  /\ TRUST_FORWARDED_HEADERS = trust_forwarded_headers
  /\ \E urls \in Deduplicated(cdn_url) :
       IF Len(urls) = 1 /\ cdn_fallback_url = None
       THEN /\ CDN_FALLBACK_URL = urls[1]
            /\ CDN_URL = <<>>
            /\ health = NoHealthTask
       ELSE /\ cdn_fallback_url # None
            /\ CDN_FALLBACK_URL = cdn_fallback_url
            /\ CDN_URL = urls
            /\ health = HealthTaskCreated
  /\ CDN_ACTIVE_URL = <<>>
  /\ responses = <<>>

NoCall == [function |-> "none"]

\* A CDN server.
Cdn(scheme, host) == <<scheme, host>>

\* The other options as they are when only --cdn-url is given, once; no
\* version is cached and no function was called.
Standalone ==
  /\ proxy_protocol = FALSE
  /\ click_web_routes(None, FALSE, None, <<Cdn("http://", "cdn")>>)
  /\ IP_TO_VERSION_CACHE = <<>>
  /\ call = NoCall

\* The options the server was started with.
Configured(bootstrap, kind) ==
  /\ bootstrap_unique_id = bootstrap
  /\ storage_kind = kind
  /\ Standalone

AfterConstruction(boot_tree, boot_storage) ==
  /\ ViewsAre(Pickled(ReloadHelperReload(boot_tree, boot_storage)))
  /\ view_build = [by_content_id |-> 0, by_content_type |-> 0,
                   by_unique_id |-> 0, by_unique_id_and_md5sum |-> 0]
  /\ reload_busy = TRUE
  /\ reload_pc = [c \in Callers |-> "idle"]
  /\ worker = [c \in Callers |-> NoWorker]
  /\ views_at_start = [c \in Callers |-> LiveViews]
  /\ ConnectionMade

(***************************************************************************)
(* The index specification: the server was constructed on BootTree, the    *)
(* tree and the stored blobs have since become any of IndexInputs, and one *)
(* reload runs.                                                            *)
(***************************************************************************)
BootTree ==
  GroupFolders(<<>>,
               <<[folder |-> [folder_name |-> "newgrf", unique_id |-> U1],
                  md5sum_partial |-> Md5sumPartial(MA),
                  upload_date |-> 2,
                  availability |-> "new-games"]>>,
               1, <<>>, {})

InitIndex ==
  /\ \E input \in IndexInputs :
       /\ disk = input.disk
       /\ storage = input.storage
  /\ Configured(<<>>, "local")
  /\ AfterConstruction(BootTree, SmallStorage)

NextIndex ==
  \/ ReloadCall(1)
  \/ WorkerFinish(1)
  \/ ReloadPublish(1)
  \/ ReloadFail(1)

SpecIndex == InitIndex /\ [][NextIndex]_vars

(***************************************************************************)
(* The server was constructed on BootTree, and the tree changes between    *)
(* BootTree and LaterTree.  In the reload specification reload() is called *)
(* up to MaxReloads times; in the server specification the server serves   *)
(* one connection while reload() is called once.                           *)
(***************************************************************************)
\* BootTree with an earlier upload of the same base in newgrf/U1, an entry in
\* newgrf/U2 and one in base-graphics/U1.
LaterTree ==
  GroupFolders(<<>>,
               <<[folder |-> [folder_name |-> "newgrf", unique_id |-> U1],
                  md5sum_partial |-> Md5sumPartial(MA),
                  upload_date |-> 2,
                  availability |-> "new-games"],
                 [folder |-> [folder_name |-> "newgrf", unique_id |-> U1],
                  md5sum_partial |-> Md5sumPartial(MB),
                  upload_date |-> 1,
                  availability |-> "archived"],
                 [folder |-> [folder_name |-> "newgrf", unique_id |-> U2],
                  md5sum_partial |-> Md5sumPartial(MA),
                  upload_date |-> 1,
                  availability |-> "new-games"],
                 [folder |-> [folder_name |-> "base-graphics", unique_id |-> U1],
                  md5sum_partial |-> Md5sumPartial(MC),
                  upload_date |-> 1,
                  availability |-> "new-games"]>>,
               1, <<>>, {})

ServerTrees == {BootTree, LaterTree}

\* The catalog on disk changes.
DiskChange(tree) ==
  /\ disk # tree
  /\ disk' = tree
  /\ UNCHANGED <<config, elsewhere, storage, views, supervisor, connection>>

Init ==
  /\ disk = BootTree
  /\ storage = SmallStorage
  /\ Configured(<<>>, "local")
  /\ AfterConstruction(BootTree, SmallStorage)

NextReload ==
  \/ \E tree \in ServerTrees : DiskChange(tree)
  \/ \E c \in Callers : ReloadCall(c)
  \/ \E c \in Callers : ReloadResume(c)
  \/ \E c \in Callers : WorkerFinish(c)
  \/ \E c \in Callers : ReloadPublish(c)
  \/ \E c \in Callers : ReloadFail(c)

SpecReload == Init /\ [][NextReload]_vars

Next ==
  \/ \E tree \in ServerTrees : DiskChange(tree)
  \/ ReloadCall(1)
  \/ WorkerFinish(1)
  \/ ReloadPublish(1)
  \/ ReloadFail(1)
  \/ \E frames \in UNION {[1..n -> Frames] : n \in 1..MaxFrames} : DataReceived(frames)
  \/ TaskGet
  \/ TaskLoop
  \/ TaskSend
  \/ TaskWrite
  \/ TaskResume
  \/ ResumeWriting
  \/ CheckClosed
  \/ PeerClose
  \/ ConnectionLost

Spec == Init /\ [][Next]_vars

(***************************************************************************)
(* The listing specification: the server was constructed on ListTree, with *)
(* or without a bootstrap unique id; it serves one connection that sends   *)
(* CLIENT_INFO_LIST requests while reload() is called once.                *)
(***************************************************************************)
\* Three active NewGRFs with a compatibility (from 0.9.0 on; before 0.10.0;
\* jgrpp from 0.40 and before 1.0), an archived one, and two active versions
\* of the base graphics 01020304, the later one for vanilla from 12.0 on.
ListTree ==
  GroupFolders(<<>>,
               <<[folder |-> [folder_name |-> "newgrf", unique_id |-> U1],
                  md5sum_partial |-> Md5sumPartial(MA),
                  upload_date |-> 2,
                  availability |-> "new-games",
                  compatibility |-> [b \in {"vanilla"} |-> <<<<0, 9, 0>>, <<>>>>]],
                 [folder |-> [folder_name |-> "newgrf", unique_id |-> U2],
                  md5sum_partial |-> Md5sumPartial(MB),
                  upload_date |-> 1,
                  availability |-> "new-games",
                  compatibility |-> [b \in {"vanilla"} |-> <<<<>>, <<0, 10, 0>>>>]],
                 [folder |-> [folder_name |-> "newgrf", unique_id |-> U2],
                  md5sum_partial |-> Md5sumPartial(MA),
                  upload_date |-> 2,
                  availability |-> "new-games",
                  compatibility |-> [b \in {"jgrpp"} |-> <<<<0, 40>>, <<1, 0>>>>]],
                 [folder |-> [folder_name |-> "newgrf", unique_id |-> U1],
                  md5sum_partial |-> Md5sumPartial(MB),
                  upload_date |-> 1,
                  availability |-> "archived"],
                 [folder |-> [folder_name |-> "base-graphics", unique_id |-> U1],
                  md5sum_partial |-> Md5sumPartial(MA),
                  upload_date |-> 1,
                  availability |-> "new-games",
                  compatibility |-> [b \in {"vanilla"} |-> <<<<>>, <<12, 0>>>>]],
                 [folder |-> [folder_name |-> "base-graphics", unique_id |-> U1],
                  md5sum_partial |-> Md5sumPartial(MC),
                  upload_date |-> 2,
                  availability |-> "new-games",
                  compatibility |-> [b \in {"vanilla"} |-> <<<<12, 0>>, <<>>>>]]>>,
               1, <<>>, {})

\* openttd_version with the given top byte and bits 23..20, the lower bits
\* set.
OpenttdVersion(top, nibble) == <<top, nibble * (2 ^ 20) + 1>>

ListRequest(content_type, openttd_version, branch_versions) ==
  [type |-> "PACKET_CONTENT_CLIENT_INFO_LIST",
   content_type |-> content_type,
   openttd_version |-> openttd_version,
   branch_versions |-> branch_versions]

\* The requests of a 0.10.0 client (0x0A0B0000) for NewGRFs and for base graphics, of a
\* 12.0 client for base graphics, and of clients that send their branches:
\* vanilla 12.0 with jgrpp 0.40, a vanilla version with a letter for a part,
\* and a vanilla version that is a superscript two with a jgrpp version with
\* a letter for a part.
ListFrames ==
  {ListRequest(CONTENT_TYPE_NEWGRF, <<10, 11 * 65536>>, <<>>),
   ListRequest(CONTENT_TYPE_BASE_GRAPHICS, <<10, 11 * 65536>>, <<>>),
   ListRequest(CONTENT_TYPE_BASE_GRAPHICS, OpenttdVersion(28, 0), <<>>),
   ListRequest(CONTENT_TYPE_NEWGRF, VERSION_SENTINEL,
               <<<<"vanilla", <<"1", "2", ".", "0">>>>,
                 <<"jgrpp", <<"0", ".", "4", "0">>>>>>),
   ListRequest(CONTENT_TYPE_BASE_GRAPHICS, VERSION_SENTINEL,
               <<<<"vanilla", <<"1", ".", "a">>>>>>),
   ListRequest(CONTENT_TYPE_NEWGRF, VERSION_SENTINEL,
               <<<<"vanilla", <<"superscript-2">>>>,
                 <<"jgrpp", <<"1", ".", "a">>>>>>)}

InitList ==
  /\ disk = ListTree
  /\ storage = SmallStorage
  /\ bootstrap_unique_id \in {<<>>, U1}
  /\ storage_kind = "local"
  /\ Standalone
  /\ AfterConstruction(ListTree, SmallStorage)

NextList ==
  \/ ReloadCall(1)
  \/ WorkerFinish(1)
  \/ ReloadPublish(1)
  \/ ReloadFail(1)
  \/ \E frame \in ListFrames : DataReceived(<<frame>>)
  \/ TaskGet
  \/ ListBegin
  \/ ListCapture
  \/ ListNext
  \/ TaskSend
  \/ TaskWrite
  \/ TaskResume
  \/ ResumeWriting
  \/ CheckClosed
  \/ PeerClose
  \/ ConnectionLost

SpecList == InitList /\ [][NextList]_vars

(***************************************************************************)
(* The wire specification: the server was constructed on ListTree; the     *)
(* connection receives up to MaxFrames frames as bytes, well-formed and     *)
(* not, which receive_packet of src/bananas_server/openttd decodes.        *)
(***************************************************************************)
\* A frame of the given packet type: length (uint16), type, payload.
WireFrame(type, payload) ==
  <<(3 + Len(payload)) % 256, (3 + Len(payload)) \div 256, type>> \o payload

\* Requests for keys of ListTree and for keys it has not: content id
\* 0x00ABCDEF and 0x01ABCDEF; newgrf 05060708 and base graphics 01020304;
\* ai 01020304, of which ListTree has no folder, before newgrf 05060708;
\* newgrf 01020304 with digest MA; a listing of newgrf for 0.10.0.
WellFormedFrames ==
  {WireFrame(1, <<2, 0, 239, 205, 171, 0, 239, 205, 171, 1>>),
   WireFrame(2, <<2, CONTENT_TYPE_NEWGRF, 8, 7, 6, 5,
                     CONTENT_TYPE_BASE_GRAPHICS, 1, 2, 3, 4>>),
   WireFrame(2, <<2, 3, 1, 2, 3, 4, CONTENT_TYPE_NEWGRF, 8, 7, 6, 5>>),
   WireFrame(3, <<1, CONTENT_TYPE_NEWGRF, 4, 3, 2, 1>> \o MA),
   WireFrame(0, <<CONTENT_TYPE_NEWGRF, 0, 0, 11, 10>>)}

\* Frames that are no client request: a packet type past the last one, the
\* two server-only types, content-type bytes 0 and CONTENT_TYPE_END, and
\* payloads shorter and longer than the entries they declare.
MalformedFrames ==
  {WireFrame(PACKET_CONTENT_END, <<>>),
   WireFrame(4, <<>>),
   WireFrame(6, <<>>),
   WireFrame(2, <<1, 0, 1, 2, 3, 4>>),
   WireFrame(2, <<1, CONTENT_TYPE_END, 1, 2, 3, 4>>),
   WireFrame(0, <<0, 0, 0, 11, 10>>),
   WireFrame(0, <<CONTENT_TYPE_END, 0, 0, 11, 10>>),
   WireFrame(3, <<1, 0, 4, 3, 2, 1>> \o MA),
   WireFrame(1, <<2, 0, 239, 205, 171, 0>>),
   WireFrame(1, <<1, 0, 239, 205, 171, 0, 239, 205, 171, 1>>),
   WireFrame(5, <<1, 0, 239, 205, 171>>),
   WireFrame(0, <<CONTENT_TYPE_NEWGRF, 0, 0, 11, 10, 0>>),
   <<2, 0>>}

WireFrames == WellFormedFrames \cup MalformedFrames

InitWire ==
  /\ disk = ListTree
  /\ storage = SmallStorage
  /\ Configured(<<>>, "local")
  /\ AfterConstruction(ListTree, SmallStorage)

NextWire ==
  \/ \E data \in WireFrames : DataReceived(<<Queued(data)>>)
  \/ TaskGet
  \/ TaskLoop
  \/ ListBegin
  \/ TaskSend
  \/ TaskWrite
  \/ TaskResume
  \/ ResumeWriting
  \/ CheckClosed
  \/ PeerClose
  \/ ConnectionLost

SpecWire == InitWire /\ [][NextWire]_vars

(***************************************************************************)
(* check_cdn_health.  The task notes the status of each probe of the cycle *)
(* it is in and of the cycle it completed last, and counts the cycles.     *)
(***************************************************************************)
MaxCycles == 2

\* What "session.get(f"{cdn_url}/healthz")" can bring: a response with a
\* status, or an exception.
ProbeResults == {"200", "503", "offline"}

\* A variant that takes every response for a sign of health.
Answered(result) == result # "offline"

\* "if response.status == 200"
StatusOk(result) == result = "200"

\* The task at the top of "while True": with servers to probe it waits for
\* the first response, with none it sets the empty list and sleeps.
CycleBegins(cycles, last) ==
  IF CDN_URL = <<>>
  THEN /\ CDN_ACTIVE_URL' = <<>>
       /\ health' = [pc |-> "sleep_30", i |-> 0, active_url |-> <<>>,
                     statuses |-> <<>>, last |-> <<>>, cycles |-> cycles + 1]
  ELSE /\ health' = [pc |-> "probe", i |-> 1, active_url |-> <<>>,
                     statuses |-> <<>>, last |-> last, cycles |-> cycles]
       /\ UNCHANGED CDN_ACTIVE_URL

\* "await asyncio.sleep(1)" is over: the list is emptied, the first cycle
\* begins.
HealthStart ==
  /\ EventLoopFree
  /\ health.pc = "sleep_1"
  /\ IF CDN_URL = <<>>
     THEN CycleBegins(0, <<>>)
     ELSE /\ CDN_ACTIVE_URL' = <<>>
          /\ health' = [pc |-> "probe", i |-> 1, active_url |-> <<>>,
                        statuses |-> <<>>, last |-> <<>>, cycles |-> 0]
  /\ UNCHANGED <<config, disk, storage, views, supervisor, connection, endpoint,
                 responses, IP_TO_VERSION_CACHE, call, opened>>

\* The task after the probe of server i, active_url being what it holds
\* then: it probes the next server, or, after the last, assigns the list and
\* sleeps.
Probed(result, active_url) ==
  IF health.i < Len(CDN_URL)
  THEN /\ health' = [health EXCEPT !.i = @ + 1,
                                   !.active_url = active_url,
                                   !.statuses = Append(@, result)]
       /\ UNCHANGED CDN_ACTIVE_URL
  ELSE /\ CDN_ACTIVE_URL' = active_url
       /\ health' = [pc |-> "sleep_30", i |-> 0, active_url |-> active_url,
                     statuses |-> <<>>,
                     last |-> Append(health.statuses, result),
                     cycles |-> health.cycles + 1]

\* The probe of server i ends with a status or an exception.
HealthProbe(result) ==
  /\ EventLoopFree
  /\ health.pc = "probe"
  /\ Probed(result, IF StatusOk(result)
                    THEN Append(health.active_url, CDN_URL[health.i])
                    ELSE health.active_url)
  /\ UNCHANGED <<config, disk, storage, views, supervisor, connection, endpoint,
                 responses, IP_TO_VERSION_CACHE, call, opened>>

\* "await asyncio.sleep(30)" is over: the next cycle begins.
HealthWake ==
  /\ EventLoopFree
  /\ health.pc = "sleep_30"
  /\ health.cycles < MaxCycles
  /\ CycleBegins(health.cycles, health.last)
  /\ UNCHANGED <<config, disk, storage, views, supervisor, connection, endpoint,
                 responses, IP_TO_VERSION_CACHE, call, opened>>

(***************************************************************************)
(* balancer_handler: POST /bananas.  A request is its scheme, its          *)
(* X-Forwarded-Proto header (<<>> when it has none) and the lines of its   *)
(* body, a line being a content id or a text that int() refuses.           *)
(***************************************************************************)
MaxPosts == 1

\* A variant that trusts the header whatever the option says.
TrustsHeader(trust, request) ==
  request.scheme = "https" \/ request.forwarded_proto = <<"https">>

\* The condition of line 104.
IsHttps(trust, request) ==
  request.scheme = "https" \/ (trust /\ request.forwarded_proto = <<"https">>)

\* cdn_url.replace("http://", "https://")
Replaced(cdn_url) ==
  [k \in 1..Len(cdn_url) |-> IF cdn_url[k] = "http://" THEN "https://" ELSE cdn_url[k]]

\* A variant that may take the fallback while servers are healthy.
ChoiceOrFallback(active, fallback) == {active[k] : k \in 1..Len(active)} \cup {fallback}

\* "random.choice(CDN_ACTIVE_URL)" or the fallback: the urls cdn_url can be.
Choice(active, fallback) ==
  IF active # <<>> THEN {active[k] : k \in 1..Len(active)} ELSE {fallback}

\* The line of the response for a line of the body; none for a text that is
\* no number and for a content id the live view has not.
ResponseLine(line, cdn_url) ==
  IF "content_id" \notin DOMAIN line THEN <<>>
  ELSE IF get_by_content_id(line.content_id) = None THEN <<>>
       ELSE <<[content_id |-> line.content_id,
               content_type |-> get_by_content_id(line.content_id).content_type,
               cdn_url |-> cdn_url,
               folder_name |-> get_folder_name_from_content_type(
                                 get_by_content_id(line.content_id).content_type),
               unique_id |-> get_by_content_id(line.content_id).unique_id,
               md5sum |-> get_by_content_id(line.content_id).md5sum]>>

RECURSIVE ResponseLines(_, _)
\* The loop over content_ids.
ResponseLines(lines, cdn_url) ==
  IF lines = <<>> THEN <<>>
  ELSE ResponseLine(Head(lines), cdn_url) \o ResponseLines(Tail(lines), cdn_url)

\* The response with the url chosen and rewritten.
Balanced(request, cdn_url) ==
  responses' = Append(responses,
                      [handler |-> "balancer_handler", request |-> request, status |-> "200",
                       lines |-> ResponseLines(request.body, cdn_url)])

\* The handler from the end of "await request.read()" to its return.
balancer_handler(request) ==
  /\ EventLoopFree
  /\ Len(responses) < MaxPosts
  /\ \E cdn_url \in Choice(CDN_ACTIVE_URL, CDN_FALLBACK_URL) :
       Balanced(request, IF IsHttps(TRUST_FORWARDED_HEADERS, request)
                         THEN Replaced(cdn_url) ELSE cdn_url)
  /\ UNCHANGED <<config, disk, storage, views, supervisor, connection, endpoint,
                 CDN_ACTIVE_URL, health, IP_TO_VERSION_CACHE, call, opened>>

(***************************************************************************)
(* The balancer specification: the server was started with two CDN servers *)
(* and a fallback, or with one server only, trusting forwarded headers or  *)
(* not; it probes the servers for MaxCycles cycles and answers MaxPosts    *)
(* requests.                                                               *)
(***************************************************************************)
CdnA == Cdn("http://", "cdn-a")
CdnB == Cdn("https://", "cdn-b")
Fallback == Cdn("http://", "fallback")

\* The bodies: two content ids of the catalog, between them a text and a
\* content id the catalog has not.
BalancerBody ==
  <<[content_id |-> <<0, 11259375>>], [text |-> "x"], [content_id |-> <<9, 9>>],
    [content_id |-> <<2, 11259375>>]>>

BalancerRequests ==
  {[scheme |-> scheme, forwarded_proto |-> forwarded_proto, body |-> BalancerBody] :
     scheme \in {"http", "https"},
     forwarded_proto \in {<<>>, <<"https">>, <<"http">>}}

InitWeb ==
  /\ disk = ListTree
  /\ storage = SmallStorage
  /\ bootstrap_unique_id = <<>>
  /\ storage_kind = "local"
  /\ proxy_protocol = FALSE
  /\ \E trust \in BOOLEAN :
       \/ click_web_routes(None, trust, Fallback, <<CdnA, CdnB, CdnA>>)
       \/ click_web_routes(None, trust, None, <<CdnA>>)
  /\ IP_TO_VERSION_CACHE = <<>>
  /\ call = NoCall
  /\ AfterConstruction(ListTree, SmallStorage)

NextWeb ==
  \/ HealthStart
  \/ \E result \in ProbeResults : HealthProbe(result)
  \/ HealthWake
  \/ \E request \in BalancerRequests : balancer_handler(request)

SpecWeb == InitWeb /\ [][NextWeb]_vars

(***************************************************************************)
(* POST /reload.  The body of a request is what "await request.json()"     *)
(* makes of it: a text that is no JSON raises, and a JSON text gives null, *)
(* a number, a string (its characters), a list (of strings here) or an     *)
(* object (its keys and their values).  A secret is a string in a record,  *)
(* so that it differs from None without being compared with it.            *)
(***************************************************************************)
Str(value) == [str |-> value]

NotJson == [kind |-> "invalid", items |-> <<>>]
JsonNull == [kind |-> "null", items |-> <<>>]
JsonNumber == [kind |-> "number", items |-> <<>>]
JsonString(chars) == [kind |-> "string", items |-> chars]
JsonList(items) == [kind |-> "list", items |-> items]
JsonObject(items) == [kind |-> "object", items |-> items]

SecretKey == <<"s", "e", "c", "r", "e", "t">>

\* "secret" in data, for the kinds where the operator is defined: a key of an
\* object, an item of a list, a part of a string.
Holds(data) ==
  CASE data.kind = "object" -> "secret" \in DOMAIN data.items
    [] data.kind = "list" -> \E k \in 1..Len(data.items) : data.items[k] = "secret"
    [] data.kind = "string" -> Find(data.items, SecretKey) # -1

\* The handler up to "await BANANAS_SERVER_APPLICATION.reload()": the status
\* it returns, "500" when it raises (json() on a text that is no JSON, "in"
\* on null and on a number, the subscript on a list and on a string), or
\* "reload" when it goes on to reload.
Decision(reload_secret, data) ==
  IF reload_secret = None THEN "404"
  ELSE IF data.kind = "invalid" THEN "500"
  ELSE IF data.kind \in {"null", "number"} THEN "500"
  ELSE IF ~Holds(data) THEN "404"
  ELSE IF data.kind # "object" THEN "500"
  ELSE IF data.items.secret # reload_secret THEN "404"
  ELSE "reload"

\* The entry of request c in the log of responses; its status is "pending"
\* while the handler is suspended in reload().
ReloadResponse(c, data, status) ==
  [handler |-> "reload", caller |-> c, body |-> data, status |-> status]

Posted(c) == \E k \in 1..Len(responses) : responses[k].caller = c

Answer(log, c, status) ==
  [k \in 1..Len(log) |-> IF log[k].caller = c
                         THEN ReloadResponse(c, log[k].body, status) ELSE log[k]]

\* Request c with body data, from the start of the handler to its return or
\* to its suspension in reload().
reload(c, data) ==
  /\ EventLoopFree
  /\ ~Posted(c)
  /\ \A earlier \in 1..(c - 1) : Posted(earlier)
  /\ IF Decision(RELOAD_SECRET, data) = "reload"
     THEN /\ ReloadBegins(c)
          /\ responses' = Append(responses, ReloadResponse(c, data, "pending"))
     ELSE /\ responses' = Append(responses,
                                 ReloadResponse(c, data, Decision(RELOAD_SECRET, data)))
          /\ UNCHANGED <<config, disk, storage, views, supervisor, connection>>
  /\ UNCHANGED <<endpoint, CDN_ACTIVE_URL, health, IP_TO_VERSION_CACHE, call, opened>>

\* reload() returns in the handler of request c: HTTPNoContent.
ReloadReturns(c) ==
  /\ ReloadPublishes(c)
  /\ responses' = Answer(responses, c, "204")
  /\ UNCHANGED <<endpoint, CDN_ACTIVE_URL, health, IP_TO_VERSION_CACHE, call, opened>>

\* reload() raises in the handler of request c: the exception leaves the
\* handler, and the response is 500.
ReloadRaises(c) ==
  /\ ReloadFails(c)
  /\ responses' = Answer(responses, c, "500")
  /\ UNCHANGED <<endpoint, CDN_ACTIVE_URL, health, IP_TO_VERSION_CACHE, call, opened>>

(***************************************************************************)
(* The control specification: the server was started with a reload secret  *)
(* or without one; MaxReloads requests are posted, with bodies of every    *)
(* kind, while the tree on disk changes.                                   *)
(***************************************************************************)
TheSecret == Str("s3cret")

ReloadBodies ==
  {NotJson, JsonNull, JsonNumber,
   JsonString(SecretKey), JsonString(<<"x">>),
   JsonList(<<"secret">>), JsonList(<<>>),
   JsonObject(<<>>), JsonObject([name |-> TheSecret]),
   JsonObject([secret |-> Str("guess")]), JsonObject([secret |-> TheSecret])}

InitControl ==
  /\ disk = BootTree
  /\ storage = SmallStorage
  /\ bootstrap_unique_id = <<>>
  /\ storage_kind = "local"
  /\ proxy_protocol = FALSE
  /\ \E reload_secret \in {None, TheSecret} :
       click_web_routes(reload_secret, FALSE, None, <<Cdn("http://", "cdn")>>)
  /\ IP_TO_VERSION_CACHE = <<>>
  /\ call = NoCall
  /\ AfterConstruction(BootTree, SmallStorage)

NextControl ==
  \/ \E tree \in ServerTrees : DiskChange(tree)
  \/ \E c \in Callers, data \in ReloadBodies : reload(c, data)
  \/ \E c \in Callers : ReloadResume(c)
  \/ \E c \in Callers : WorkerFinish(c)
  \/ \E c \in Callers : ReloadReturns(c)
  \/ \E c \in Callers : ReloadRaises(c)

SpecControl == InitControl /\ [][NextControl]_vars

(***************************************************************************)
(* The proxy specification: the server was constructed on ListTree, with   *)
(* and without --proxy-protocol; the connection receives reads of bytes,   *)
(* the first with and without a PROXY line, up to MaxFrames frames; a read *)
(* after the first leaves at most MaxBuffered bytes of an incomplete frame. *)
(***************************************************************************)
MaxBuffered == 4

\* str.encode() of the characters of a PROXY line.
Encode(str) == [k \in 1..Len(str) |-> CHOOSE b \in 0..127 : Chr[b] = str[k]]

RECURSIVE Join(_)
\* " ".join(fields)
Join(fields) ==
  IF Len(fields) = 1 THEN fields[1] ELSE fields[1] \o <<" ">> \o Join(Tail(fields))

\* The PROXY line of a connection from src_ip:src_port, as bytes.
ProxyLine(family, src_ip, src_port) ==
  Encode(Join(<<<<"P", "R", "O", "X", "Y">>, <<"T", "C", "P", family>>,
                src_ip, <<"1", "0", ".", "0", ".", "0", ".", "1">>,
                Decimal(src_port), Decimal(3978)>>)) \o CRLF

\* The clients behind the load balancer: family, address and port.
Clients ==
  {<<"4", <<"1", "0", ".", "1", ".", "2", ".", "3">>, 54321>>,
   <<"6", <<":", ":", "f", "f", "f", "f", ":", "1", "0", ".", "1", ".", "2", ".", "3">>, 1024>>,
   <<"6", <<":", ":", "1">>, 7>>}

\* A request for content id 0x00ABCDEF, and one for 0x00000A0D, whose bytes
\* are those of "\r\n".
AskOne == WireFrame(1, <<1, 0, 239, 205, 171, 0>>)
AskCrLf == WireFrame(1, <<1, 0, 13, 10, 0, 0>>)

\* What a client sends in one read: nothing, a frame, the first bytes of a
\* frame, the rest of it, a frame and the first bytes of the next.
Pieces ==
  {<<>>, AskOne, AskCrLf, SubSeq(AskOne, 1, 4), SubSeq(AskOne, 5, 9),
   AskCrLf \o SubSeq(AskOne, 1, 4)}

\* The reads that begin with a complete PROXY line.
ProxyRead(client, piece) == ProxyLine(client[1], client[2], client[3]) \o piece

\* The reads that do not begin with PROXY.
PlainReads == Pieces \ {<<>>}

ProxyReads == {ProxyRead(client, piece) : client \in Clients, piece \in Pieces}

InitProxy ==
  /\ disk = ListTree
  /\ storage = SmallStorage
  /\ bootstrap_unique_id = <<>>
  /\ storage_kind = "local"
  /\ proxy_protocol \in BOOLEAN
  /\ click_web_routes(None, FALSE, None, <<Cdn("http://", "cdn")>>)
  /\ IP_TO_VERSION_CACHE = <<>>
  /\ call = NoCall
  /\ AfterConstruction(ListTree, SmallStorage)

\* What the next read can be: the load balancer sends the PROXY line when
\* it connects.
NextReads == IF new_connection THEN ProxyReads \cup PlainReads ELSE PlainReads

\* A read arrives, within the bounds.
BytesReceived(data) ==
  /\ received + Len(ReceiveData(buffered \o data).frames) <= MaxFrames
  /\ new_connection \/ Len(ReceiveData(buffered \o data).data) <= MaxBuffered
  /\ data_received(data)

NextProxy ==
  \/ \E data \in NextReads : BytesReceived(data)
  \/ TaskGet
  \/ TaskLoop
  \/ TaskSend
  \/ TaskWrite
  \/ ConnectionLost

SpecProxy == InitProxy /\ [][NextProxy]_vars

(***************************************************************************)
(* The specifications of the functions without state: the server was       *)
(* constructed on ListTree, and a function is called on one of the given   *)
(* arguments.                                                              *)
(***************************************************************************)
Calling(calls) ==
  /\ disk = ListTree
  /\ storage = SmallStorage
  /\ bootstrap_unique_id = <<>>
  /\ storage_kind = "local"
  /\ proxy_protocol = FALSE
  /\ click_web_routes(None, FALSE, None, <<Cdn("http://", "cdn")>>)
  /\ IP_TO_VERSION_CACHE = <<>>
  /\ call \in calls
  /\ AfterConstruction(ListTree, SmallStorage)

\* The step of a call: nothing else changes.
Returns(result) ==
  /\ call' = result
  /\ UNCHANGED <<config, disk, storage, views, supervisor, connection,
                 endpoint, web, IP_TO_VERSION_CACHE, opened>>

\* The bytes of the unique ids.
Octets == {0, 1, 128, 255}

\* An entry of each content type with each unique id is to be sent.
UniqueIdCalls ==
  {[function |-> "send", content_type |-> content_type, unique_id |-> unique_id] :
     content_type \in ContentType \ {CONTENT_TYPE_END}, unique_id \in [1..4 -> Octets]}

\* send_PACKET_CONTENT_SERVER_INFO writes the unique id of the entry.
SendUniqueId ==
  /\ call.function = "send"
  /\ Returns([function |-> "sent",
              content_type |-> call.content_type,
              unique_id |-> call.unique_id,
              wire |-> SentUniqueId(call.content_type, call.unique_id)])

\* The client sends the bytes back in a CLIENT_INFO_EXTID, and
\* _receive_client_info reads them.
ReceiveUniqueId ==
  /\ call.function = "sent"
  /\ Returns([function |-> "received",
              content_type |-> call.content_type,
              unique_id |-> call.unique_id,
              wire |-> call.wire,
              content_info |-> ReadExtId(<<call.content_type>> \o call.wire, FALSE).info])

NextUniqueId == SendUniqueId \/ ReceiveUniqueId

InitUniqueId == Calling(UniqueIdCalls)

SpecUniqueId == InitUniqueId /\ [][NextUniqueId]_vars

(***************************************************************************)
(* The frame writer (protocol/write.py) and the frames of send.py.  A      *)
(* string is the sequence of its code points, and value.encode() is its    *)
(* UTF-8 encoding.  What a function returns or raises is a record:         *)
(* raised is "" when it returned, and data is the value.                   *)
(***************************************************************************)
PACKET_CONTENT_SERVER_INFO == 4
PACKET_CONTENT_SERVER_CONTENT == 6

\* The UTF-8 encoding of a code point.
Utf8Of(c) ==
  IF c < 128 THEN <<c>>
  ELSE IF c < 2048 THEN <<192 + (c \div 64), 128 + (c % 64)>>
  ELSE IF c < 65536
       THEN <<224 + (c \div 4096), 128 + ((c \div 64) % 64), 128 + (c % 64)>>
       ELSE <<240 + (c \div 262144), 128 + ((c \div 4096) % 64),
              128 + ((c \div 64) % 64), 128 + (c % 64)>>

RECURSIVE Utf8(_)
\* str.encode(): the encodings of the code points, one after another.
Utf8(value) ==
  IF value = <<>> THEN <<>>
  ELSE IF Len(value) = 1 THEN Utf8Of(value[1])
  ELSE Utf8(SubSeq(value, 1, Len(value) \div 2))
         \o Utf8(SubSeq(value, Len(value) \div 2 + 1, Len(value)))

write_init(type) == <<0, 0, type>>

write_uint8(data, value) == data \o <<value>>

write_uint32(data, value) == data \o WriteUint32(value)

write_string(data, value) == data \o Utf8(value) \o <<0>>

\* struct.pack("<H", value)
PackUint16(value) == <<value % 256, value \div 256>>

\* A variant that finalizes a frame of any length.
WritePresendAny(data) ==
  [raised |-> "", data |-> PackUint16(Len(data) % 65536) \o SubSeq(data, 3, Len(data))]

\* write_presend: the frame with its prefix rewritten, or PacketTooBig.
write_presend(data) ==
  IF Len(data) > SEND_MTU
  THEN [raised |-> "PacketTooBig", data |-> <<>>]
  ELSE [raised |-> "", data |-> PackUint16(Len(data)) \o SubSeq(data, 3, Len(data))]

\* The frame that begins a file: lines 75-81 of send.py.
ContentHeader(content_type, content_id, filesize, filename) ==
  write_string(
    write_uint32(
      write_uint32(
        write_uint8(write_init(PACKET_CONTENT_SERVER_CONTENT), content_type),
        content_id),
      filesize),
    filename)

\* A frame of the file, with what stream.read(SEND_MTU - 3) returned.
ContentChunk(read) == write_init(PACKET_CONTENT_SERVER_CONTENT) \o read

\* "data = write_presend(data)" and "await self.send_packet(data)", the event
\* being set and the transport open: an exception of write_presend leaves
\* the function before send_packet is called; else the transport is given
\* the frame.
Presend(built, finalized) ==
  [function |-> "send_packet", built |-> built, raised |-> finalized.raised,
   written |-> IF finalized.raised = "" THEN <<finalized.data>> ELSE <<>>]

RECURSIVE Uint32s(_)
\* The bytes write_uint32 appends for the values, one after another.
Uint32s(values) ==
  IF values = <<>> THEN <<>>
  ELSE IF Len(values) = 1 THEN write_uint32(<<>>, values[1])
  ELSE Uint32s(SubSeq(values, 1, Len(values) \div 2))
         \o Uint32s(SubSeq(values, Len(values) \div 2 + 1, Len(values)))

\* "for dependency in dependencies: data = write_uint32(data, dependency)"
WriteUint32s(data, values) == data \o Uint32s(values)

RECURSIVE WriteStrings(_, _)
\* "for tag in tags: data = write_string(data, tag)"
WriteStrings(data, values) ==
  IF values = <<>> THEN data
  ELSE WriteStrings(write_string(data, Head(values)), Tail(values))

\* Lines 33-42 of send.py: the frame up to the description.
ServerInfoTexts(e) ==
  write_string(
    write_string(
      write_string(
        write_string(
          write_uint32(
            write_uint32(
              write_uint8(write_init(PACKET_CONTENT_SERVER_INFO), e.content_type),
              e.content_id),
            e.filesize),
          e.name),
        e.version),
      e.url),
    e.description)

\* Lines 44-68 of send.py: the unique id, the md5sum, the dependencies, the
\* tags and the upload date.
ServerInfo(e, tags) ==
  write_uint32(
    WriteStrings(
      write_uint8(
        WriteUint32s(
          write_uint8(
            ServerInfoTexts(e) \o SentUniqueId(e.content_type, e.unique_id) \o e.md5sum,
            Len(e.dependencies)),
          e.dependencies),
        Len(tags)),
      tags),
    e.upload_date)

(***************************************************************************)
(* The frame specification: a frame of each kind is built, finalized and   *)
(* handed to send_packet; the texts and the reads are runs of one          *)
(* character or byte, of lengths around the limits.                        *)
(***************************************************************************)
Run(item, n) == [k \in 1..n |-> item]

\* "A", "é", a CJK character and an emoji: one to four bytes each.
CodePoints == {65, 233, 20013, 128512}

\* The entry of a SERVER_INFO frame with the given description.
Described(content_type, description) ==
  [content_type |-> content_type, content_id |-> <<0, 11259375>>, filesize |-> <<0, 4096>>,
   name |-> <<110>>, version |-> <<49>>, url |-> <<>>, description |-> description,
   unique_id |-> U1, md5sum |-> MA, dependencies |-> <<<<1, 11259375>>>>,
   upload_date |-> <<95, 0>>]

FilenameLengths == {0, 47, 1446, 1447, 1448}
ReadLengths == {0, 1, 253, 1456, 1457}
DescriptionLengths == {0, 255, 511}

FrameCalls ==
  {[function |-> "header", content_type |-> content_type,
    filename |-> Run(65, n)] :
     content_type \in ContentType \ {CONTENT_TYPE_END}, n \in FilenameLengths}
  \cup {[function |-> "chunk", read |-> Run(byte, n)] :
          byte \in {0, 255}, n \in ReadLengths}
  \cup {[function |-> "info", entry |-> Described(content_type, Run(c, n)),
         tags |-> tags] :
          content_type \in {CONTENT_TYPE_BASE_GRAPHICS, CONTENT_TYPE_NEWGRF},
          c \in CodePoints, n \in DescriptionLengths,
          tags \in {<<>>, <<Run(97, 3), Run(233, 2)>>}}

\* The frame of a call as it is before write_presend.
Built(c) ==
  CASE c.function = "header" ->
         ContentHeader(c.content_type, <<0, 11259375>>, <<0, 4096>>, c.filename)
    [] c.function = "chunk" -> ContentChunk(c.read)
    [] c.function = "info" -> ServerInfo(c.entry, c.tags)

\* One frame is built and sent.
SendFrame ==
  /\ call.function \in {"header", "chunk", "info"}
  /\ Returns(Presend(Built(call), write_presend(Built(call))))

InitFrame == Calling(FrameCalls)

SpecFrame == InitFrame /\ [][SendFrame]_vars

(***************************************************************************)
(* _safe_name of helpers/safe_filename.py, on names of up to MaxName       *)
(* characters: a lower-case and an upper-case letter, a digit, the dot,    *)
(* the underscore and two characters that are none of these.               *)
(***************************************************************************)
MaxName == 4

Letters == {"a", "Z", "7", ".", "_", " ", "-"}

\* The characters _safe_name keeps: a-z, A-Z, 0-9 and the dot.
Kept == {"a", "Z", "7", "."}

\* new_name after the letter: a kept letter is added, any other letter adds
\* an underscore unless new_name is empty or ends with one.
WithLetter(new_name, letter) ==
  IF letter \in Kept THEN Append(new_name, letter)
  ELSE IF new_name # <<>> /\ new_name[Len(new_name)] # "_" THEN Append(new_name, "_")
       ELSE new_name

RECURSIVE Collected(_, _)
\* new_name after the loop over the letters of name.
Collected(new_name, name) ==
  IF name = <<>> THEN new_name
  ELSE Collected(WithLetter(new_name, Head(name)), Tail(name))

RECURSIVE Strip(_, _)
\* A variant of strip that takes the characters off the left end only.
LeftStrip(str, chars) ==
  IF str # <<>> /\ Head(str) \in chars THEN Strip(Tail(str), chars) ELSE str

\* str.strip(chars)
Strip(str, chars) ==
  IF str # <<>> /\ Head(str) \in chars THEN Strip(Tail(str), chars)
  ELSE IF str # <<>> /\ str[Len(str)] \in chars
       THEN Strip(SubSeq(str, 1, Len(str) - 1), chars)
       ELSE str

\* _safe_name
safe_name(name) == Strip(Collected(<<>>, name), {".", "_"})

Names == UNION {[1..n -> Letters] : n \in 0..MaxName}

SafeNameCalls == {[function |-> "_safe_name", name |-> name] : name \in Names}

\* _safe_name is called on the name, and then on what it returned.
SafeName ==
  /\ call.function = "_safe_name"
  /\ Returns([function |-> "returned", name |-> call.name,
              new_name |-> safe_name(call.name),
              again |-> safe_name(safe_name(call.name))])

InitSafeName == Calling(SafeNameCalls)

SpecSafeName == InitSafeName /\ [][SafeName]_vars

(***************************************************************************)
(* set_version_from_source of bananas_server.py, called by the handlers of *)
(* CLIENT_INFO_LIST of the connections of several clients, MaxCalls times. *)
(* MaxCached stands for the 10000 entries the cache may hold.              *)
(***************************************************************************)
MaxCached == 3
MaxCalls == 5

\* The keys of a dict, in order.
Keys(items) == [k \in 1..Len(items) |-> items[k].key]

\* dict[key] = value: the value of a key the dict holds is replaced where
\* it is, a new key goes to the end.
Assign(items, key, value) ==
  IF \E k \in 1..Len(items) : items[k].key = key
  THEN [k \in 1..Len(items) |->
          IF items[k].key = key THEN [key |-> key, value |-> value] ELSE items[k]]
  ELSE Append(items, [key |-> key, value |-> value])

\* A variant that takes the last key out.
PopLast(items) == SubSeq(items, 1, Len(items) - 1)

\* "IP_TO_VERSION_CACHE.pop(next(iter(IP_TO_VERSION_CACHE)))"
PopFirst(items) == Tail(items)

\* "if len(IP_TO_VERSION_CACHE) > 10000", on the dict after the assignment.
Trimmed(items) == IF Len(items) > MaxCached THEN PopFirst(items) ELSE items

\* The cache after set_version_from_source(source, version).
set_version_from_source(ip, version) == Trimmed(Assign(IP_TO_VERSION_CACHE, ip, version))

\* The addresses of the clients and the versions they report.
Addresses == {"10.0.0.1", "10.0.0.2", "10.0.0.3", "10.0.0.4"}
VersionStats == {"vanilla-12.0", "jgrpp-0.40"}

\* No call was made: the clock of the calls is at 0 and no address has been
\* inserted.
NoVersionCall ==
  [function |-> "none", clock |-> 0, inserted |-> [ip \in Addresses |-> 0],
   ip |-> "", before |-> <<>>]

\* A handler calls set_version_from_source; the call is noted with the time
\* at which each address was inserted last.
SetVersionFromSource(ip, version) ==
  /\ call.clock < MaxCalls
  /\ IP_TO_VERSION_CACHE' = set_version_from_source(ip, version)
  /\ call' = [function |-> "set_version_from_source",
              clock |-> call.clock + 1,
              inserted |-> IF \E k \in 1..Len(IP_TO_VERSION_CACHE) :
                                IP_TO_VERSION_CACHE[k].key = ip
                           THEN call.inserted
                           ELSE [call.inserted EXCEPT ![ip] = call.clock + 1],
              ip |-> ip,
              before |-> Keys(IP_TO_VERSION_CACHE)]
  /\ UNCHANGED <<config, disk, storage, views, supervisor, connection, endpoint, web, opened>>

InitCache == Calling({NoVersionCall})

NextCache == \E ip \in Addresses, version \in VersionStats : SetVersionFromSource(ip, version)

SpecCache == InitCache /\ [][NextCache]_vars

(***************************************************************************)
(* The download specification: the server was constructed on ListTree with *)
(* either storage; the connection sends up to MaxDownloads CLIENT_CONTENT  *)
(* requests for content ids of the catalog and for one that is not in it.  *)
(***************************************************************************)
MissingId == <<9, 9>>

\* The content ids a client asks for: those of the entries of 01020304 it
\* was sent before, and one it made up.
AskedIds ==
  {content_id \in DOMAIN by_content_id : by_content_id[content_id].unique_id = U1}
  \cup {MissingId}

ContentRequest(ids) ==
  [type |-> "PACKET_CONTENT_CLIENT_CONTENT",
   content_infos |-> [k \in 1..Len(ids) |-> [content_id |-> ids[k]]]]

ContentReceived ==
  /\ received < MaxDownloads
  /\ \E first \in AskedIds :
       \/ DataReceived(<<ContentRequest(<<first>>)>>)
       \/ \E second \in AskedIds : DataReceived(<<ContentRequest(<<first, second>>)>>)

InitContent ==
  /\ disk = ListTree
  /\ storage = SmallStorage
  /\ bootstrap_unique_id = <<>>
  /\ storage_kind \in {"local", "s3"}
  /\ Standalone
  /\ AfterConstruction(ListTree, SmallStorage)

NextContent ==
  \/ ContentReceived
  \/ Finalize
  \/ TaskGet
  \/ ContentBegin
  \/ ContentRead
  \/ TaskSend
  \/ TaskWrite
  \/ TaskResume
  \/ ResumeWriting
  \/ CheckClosed
  \/ PeerClose
  \/ ConnectionLost

SpecContent == InitContent /\ [][NextContent]_vars

(***************************************************************************)
(* The watchdog specification: the connection of the server specification  *)
(* without reloads, and resume_writing is never called.  A sleep of the    *)
(* watchdog ends, and a task that was awakened or is running goes on.      *)
(***************************************************************************)
NextWatchdog ==
  \/ \E frames \in UNION {[1..n -> Frames] : n \in 1..MaxFrames} : DataReceived(frames)
  \/ TaskGet
  \/ TaskLoop
  \/ TaskSend
  \/ TaskWrite
  \/ TaskResume
  \/ CheckClosed
  \/ PeerClose
  \/ ConnectionLost

SpecWatchdog ==
  /\ Init
  /\ [][NextWatchdog]_vars
  /\ WF_vars(CheckClosed)
  /\ WF_vars(TaskResume)
  /\ WF_vars(TaskWrite)

(***************************************************************************)
(* The decoding specification: as the listing specification, without       *)
(* reload; the connection sends up to MaxDecoded CLIENT_INFO_LIST requests *)
(* drawn from a wide range of versions.                                    *)
(***************************************************************************)
\* Values of openttd_version around the threshold of the major version, with
\* the reserved bits clear and set; the sentinel is among them.
DecodeVersions ==
  {<<top, nibble * (2 ^ 20) + reserved>> :
     top \in {0, 9, 10, 27, 28, 31, 255}, nibble \in {0, 11, 15}, reserved \in {0, 1048575}}

\* Version strings: well-formed ones, one with a leading zero, and ones with
\* a part that is a letter, empty, or a numeric character that is no digit.
DecodeStrings ==
  {<<"1", "2", ".", "0">>,
   <<"0", ".", "4", "0">>,
   <<"1", "0", ".", "1", "1", ".", "1", "2">>,
   <<"0", "0", "7">>,
   <<"1", ".", "a">>,
   <<"1", ".", ".", "2">>,
   <<>>,
   <<"1", ".", "superscript-2">>}

DecodeRequests ==
  {ListRequest(CONTENT_TYPE_NEWGRF, v, <<>>) : v \in DecodeVersions}
  \cup {ListRequest(CONTENT_TYPE_NEWGRF, VERSION_SENTINEL, <<<<"vanilla", str>>>>) :
          str \in DecodeStrings}
  \cup {ListRequest(CONTENT_TYPE_BASE_GRAPHICS, VERSION_SENTINEL,
                    <<<<"vanilla", <<"1", "2", ".", "0">>>>, <<"jgrpp", str>>>>) :
          str \in DecodeStrings}

DecodeReceived ==
  /\ received < MaxDecoded
  /\ \E frame \in DecodeRequests : DataReceived(<<frame>>)

NextDecode ==
  \/ DecodeReceived
  \/ TaskGet
  \/ ListBegin
  \/ ListCapture
  \/ ListNext
  \/ TaskSend
  \/ TaskWrite
  \/ TaskResume
  \/ ResumeWriting

SpecDecode == InitList /\ [][NextDecode]_vars

(***************************************************************************)
(* The faulty-tree specification: the server was constructed on BootTree,  *)
(* the tree has since become FaultyBase with any defect in any of its      *)
(* version files and possibly a global.yaml that is not YAML, and one      *)
(* reload runs.                                                            *)
(***************************************************************************)
\* LaterTree with a second version file in newgrf/U2 that names a blob the
\* storage does not hold.
FaultyBase ==
  GroupFolders(<<>>,
               <<[folder |-> [folder_name |-> "newgrf", unique_id |-> U1],
                  md5sum_partial |-> Md5sumPartial(MA),
                  upload_date |-> 2,
                  availability |-> "new-games"],
                 [folder |-> [folder_name |-> "newgrf", unique_id |-> U1],
                  md5sum_partial |-> Md5sumPartial(MB),
                  upload_date |-> 1,
                  availability |-> "archived"],
                 [folder |-> [folder_name |-> "newgrf", unique_id |-> U2],
                  md5sum_partial |-> Md5sumPartial(MA),
                  upload_date |-> 1,
                  availability |-> "new-games"],
                 [folder |-> [folder_name |-> "base-graphics", unique_id |-> U1],
                  md5sum_partial |-> Md5sumPartial(MC),
                  upload_date |-> 1,
                  availability |-> "new-games"],
                 [folder |-> [folder_name |-> "newgrf", unique_id |-> U2],
                  md5sum_partial |-> Md5sumPartial(MC),
                  upload_date |-> 2,
                  availability |-> "new-games"]>>,
               1, <<>>, {})

\* The tree with the defect defect[f] in its version file number f, and the
\* global.yaml of the folders numbered in malformed not YAML.
FaultyTree(tree, defect, malformed) ==
  [i \in 1..Len(tree) |->
     [folder_name |-> tree[i].folder_name,
      unique_id |-> tree[i].unique_id,
      blacklisted |-> tree[i].blacklisted,
      malformed |-> i \in malformed,
      versions |-> [k \in 1..Len(tree[i].versions) |->
                      [tree[i].versions[k] EXCEPT
                         !.defect = defect[tree[i].versions[k].file]]]]]

FaultyInputs ==
  {FaultyTree(FaultyBase, defect, malformed) :
     defect \in [1..FileCount(FaultyBase) -> Defects], malformed \in {{}, {2}}}

InitFaulty ==
  /\ disk \in FaultyInputs
  /\ storage = SmallStorage
  /\ Configured(<<>>, "local")
  /\ AfterConstruction(BootTree, SmallStorage)

SpecFaulty == InitFaulty /\ [][NextIndex]_vars

(***************************************************************************)
(* Properties of the index build.                                          *)
(***************************************************************************)
\* The builds that returned their tuple.
Returned == {c \in Callers : /\ worker[c].state = "done"
                             /\ ~worker[c].crashed
                             /\ ~worker[c].result.raised}

\* The little-endian integer of the last three bytes of a digest.
TailOf(md5sum) ==
  md5sum[Len(md5sum) - 2] + 256 * md5sum[Len(md5sum) - 1] + 65536 * md5sum[Len(md5sum)]

\* The entries of objs sharing the base of entry o and uploaded before it, and
\* the others uploaded no later than it.
Earlier(objs, o) ==
  {x \in DOMAIN objs : /\ TailOf(objs[x].md5sum) = TailOf(objs[o].md5sum)
                       /\ objs[x].upload_date < objs[o].upload_date}

NotLater(objs, o) ==
  {x \in (DOMAIN objs) \ {o} : /\ TailOf(objs[x].md5sum) = TailOf(objs[o].md5sum)
                               /\ objs[x].upload_date <= objs[o].upload_date}

RankedIds(result) ==
  /\ \A o \in DOMAIN result.objs :
       /\ result.objs[o].content_id[2] = TailOf(result.objs[o].md5sum)
       /\ result.objs[o].content_id[1] >= Cardinality(Earlier(result.objs, o))
       /\ result.objs[o].content_id[1] <= Cardinality(NotLater(result.objs, o))
       /\ result.objs[o].content_id[1] <= 255
       /\ result.objs[o].content_id[2] <= 16777215
       /\ result.objs[o].content_id \in DOMAIN result.by_content_id
       /\ result.by_content_id[result.objs[o].content_id] = o
  /\ \A o1, o2 \in DOMAIN result.objs :
       o1 # o2 => result.objs[o1].content_id # result.objs[o2].content_id

\* C6: after a build that returned, every loaded entry, active or archived,
\* has the content id (i << 24) + base, where base is the little-endian value
\* of the last three bytes of its md5sum and i is a 0-based rank by upload
\* date among the loaded entries of the same base (at least the number of
\* those uploaded earlier, at most the number of the others uploaded no
\* later); by_content_id holds the entry under that id, the ids are pairwise
\* distinct and below 2^32.
C6_ContentIdIsRankAndBase == \A c \in Returned : RankedIds(worker[c].result)

\* Two entries of base 0xABCDEF were loaded, the one uploaded later read
\* first, and got 0x01ABCDEF and 0x00ABCDEF.
C6_Witness ==
  \E c \in Returned :
    \E o1, o2 \in DOMAIN worker[c].result.objs :
      /\ o1 < o2
      /\ worker[c].result.objs[o1].upload_date > worker[c].result.objs[o2].upload_date
      /\ worker[c].result.objs[o1].content_id = <<1, 11259375>>
      /\ worker[c].result.objs[o2].content_id = <<0, 11259375>>

\* The content id each version file's entry got, or "raised".
IdMap(result) ==
  IF result.raised THEN {"raised"}
  ELSE {<<result.objs[o].file, result.objs[o].content_id>> : o \in DOMAIN result.objs}

\* No two version files of one folder name the same blob.
DistinctBlobs(tree) ==
  \A i \in 1..Len(tree) :
    \A k1, k2 \in 1..Len(tree[i].versions) :
      k1 # k2 => tree[i].versions[k1].md5sum_partial # tree[i].versions[k2].md5sum_partial

\* C7: the content id of every entry is the same for every order in which
\* the folders and the version files of the tree are enumerated (stated for
\* the trees whose version files name distinct blobs per folder).
C7_OrderIndependent ==
  \A c \in Callers :
    (/\ worker[c].state = "done"
     /\ ~worker[c].crashed
     /\ FileCount(disk) <= MaxFiles
     /\ DistinctBlobs(disk)) =>
      \A listing \in Listings(disk) :
        IdMap(ReloadHelperReload(listing, storage)) = IdMap(worker[c].result)

\* The entry by_unique_id_and_md5sum holds for the key of entry; <<>> if none.
ByKey(entry) ==
  Get(Get(Get(by_unique_id_and_md5sum, entry.content_type, EmptyDict),
          entry.unique_id, EmptyDict),
      entry.md5sum, <<>>)

\* C8: for every content id of the live by_content_id, the live
\* by_unique_id_and_md5sum holds that same entry under the entry's
\* (content_type, unique_id, md5sum).
C8_ReachableByKey ==
  \A cid \in DOMAIN by_content_id : ByKey(by_content_id[cid]) = by_content_id[cid]

\* The raw dependencies of entry o that name a loaded entry.
Loadable(result, o) ==
  {i \in 1..Len(result.objs[o].raw_dependencies) :
     \E x \in DOMAIN result.objs :
       <<result.objs[x].content_type, result.objs[x].unique_id, result.objs[x].md5sum>>
         = result.objs[o].raw_dependencies[i]}

ResolvedOnly(result) ==
  \A o \in DOMAIN result.objs :
    /\ o \in DictValues(result.by_content_id)
    /\ Len(result.objs[o].dependencies) = Cardinality(Loadable(result, o))
    /\ \A i \in 1..Len(result.objs[o].dependencies) :
         /\ result.objs[o].dependencies[i] \in DOMAIN result.by_content_id
         /\ \E k \in Loadable(result, o) :
              LET target == result.objs[result.by_content_id[result.objs[o].dependencies[i]]]
              IN <<target.content_type, target.unique_id, target.md5sum>>
                   = result.objs[o].raw_dependencies[k]

\* C9: after a build that returned, every loaded entry is in by_content_id,
\* its dependencies are as many as its raw dependencies that name a loaded
\* entry, and each of them is a key of by_content_id whose entry is the one a
\* raw dependency names.
C9_DependenciesResolve == \A c \in Returned : ResolvedOnly(worker[c].result)

\* An entry was loaded with two raw dependencies, of which one names a loaded
\* entry and one does not, and it has the one dependency.
C9_Witness ==
  \E c \in Returned :
    \E o \in DOMAIN worker[c].result.objs :
      /\ Len(worker[c].result.objs[o].raw_dependencies) = 2
      /\ Cardinality(Loadable(worker[c].result, o)) = 1
      /\ Len(worker[c].result.objs[o].dependencies) = 1

\* The version files numbered kept.
VersionsAt(versions, kept) == [k \in 1..Len(kept) |-> versions[kept[k]]]

\* The tree without the folders whose global.yaml is not YAML and without
\* the version files that have a defect.
Healthy(tree) ==
  [i \in 1..Len(tree) |->
     [tree[i] EXCEPT
        !.versions =
          IF tree[i].malformed THEN <<>>
          ELSE VersionsAt(tree[i].versions,
                          SelectSeq(Indices(tree[i].versions),
                                    LAMBDA k : tree[i].versions[k].defect = "none")),
        !.malformed = FALSE]]

\* C11: a reload whose worker did not crash completes on a tree with
\* defective entries (a global.yaml or a version file that is not YAML, a
\* version file without availability, with an over-long field, with an
\* invalid compatibility condition or naming a blob that is not stored), and
\* its result is the index of the tree without the defective entries.
C11_DefectSkipsOneEntry ==
  \A c \in Callers :
    (worker[c].state = "done" /\ ~worker[c].crashed) =>
      worker[c].result = ReloadHelperReload(Healthy(disk), storage)

\* The numbers of the version files of the tree that are not for new games.
ArchivedFiles(tree) ==
  UNION {{tree[i].versions[k].file :
            k \in {x \in 1..Len(tree[i].versions) :
                     tree[i].versions[x].availability # "new-games"}} :
         i \in 1..Len(tree)}

\* The entries of the result that the lists of by_content_type and the
\* dicts of by_unique_id hold.
Listed(result) ==
  UNION {{result.by_content_type[ct][k] : k \in 1..Len(result.by_content_type[ct])} :
         ct \in DOMAIN result.by_content_type}

LatestOf(result) ==
  UNION {DictValues(result.by_unique_id[ct]) : ct \in DOMAIN result.by_unique_id}

\* The entry the result holds under the key of its entry o; 0 if none.
KeyedAs(result, o) ==
  Get(Get(Get(result.by_unique_id_and_md5sum, result.objs[o].content_type, EmptyDict),
          result.objs[o].unique_id, EmptyDict),
      result.objs[o].md5sum, 0)

ArchivedByExactKeyOnly(result, archived) ==
  \A o \in DOMAIN result.objs :
    result.objs[o].file[3] \in archived =>
      /\ o \notin Listed(result)
      /\ o \notin LatestOf(result)
      /\ Get(result.by_content_id, result.objs[o].content_id, 0) = o
      /\ KeyedAs(result, o) = o

\* C12: after a build that returned, an entry read from an archived version
\* file is in no list of by_content_type and in no dict of by_unique_id, and
\* it is the entry by_content_id holds under its content id and the entry
\* by_unique_id_and_md5sum holds under its (content_type, unique_id, md5sum).
C12_ArchivedByExactKeyOnly ==
  \A c \in Returned : ArchivedByExactKeyOnly(worker[c].result, ArchivedFiles(disk))

\* The active entries of the result with the given type and unique id.
ActiveOf(result, archived, content_type, unique_id) ==
  {o \in DOMAIN result.objs : /\ result.objs[o].content_type = content_type
                              /\ result.objs[o].unique_id = unique_id
                              /\ result.objs[o].file[3] \notin archived}

LatestActive(result, archived) ==
  \A o \in DOMAIN result.objs :
    result.objs[o].file[3] \notin archived =>
      /\ result.objs[o].content_type \in DOMAIN result.by_unique_id
      /\ result.objs[o].unique_id
           \in DOMAIN result.by_unique_id[result.objs[o].content_type]
      /\ result.by_unique_id[result.objs[o].content_type][result.objs[o].unique_id]
           \in ActiveOf(result, archived, result.objs[o].content_type,
                        result.objs[o].unique_id)
      /\ result.objs[o].upload_date
           <= result.objs[result.by_unique_id[result.objs[o].content_type]
                                             [result.objs[o].unique_id]].upload_date

\* C13: after a build that returned, by_unique_id holds, for the type and
\* unique id of every active entry, an active entry of that type and unique
\* id, and no active entry of that type and unique id was uploaded later
\* (stated for the trees whose version files name distinct blobs per folder).
C13_LatestActive ==
  \A c \in Returned :
    DistinctBlobs(disk) => LatestActive(worker[c].result, ArchivedFiles(disk))

\* Some base is shared by more than 255 of the entries loaded from the tree.
OverfullBase(loaded) ==
  \E o \in 1..Len(loaded) :
    Cardinality({x \in 1..Len(loaded) :
                   TailOf(loaded[x].entry.md5sum) = TailOf(loaded[o].entry.md5sum)}) > 255

\* The views are those of the build the server was constructed with.
BootViewsLive ==
  /\ view_build = [by_content_id |-> 0, by_content_type |-> 0,
                   by_unique_id |-> 0, by_unique_id_and_md5sum |-> 0]
  /\ ViewsAre(Pickled(ReloadHelperReload(BootTree, SmallStorage)))

\* The rule of inclusion as the specification words it: no compatibility, or
\* a branch of the client that the entry names, the client's version of it
\* being at least the minimum, if there is one, and below the maximum, if
\* there is one.
Included(compatibility, versions) ==
  \/ DOMAIN compatibility = {}
  \/ \E branch \in (DOMAIN versions) \cap (DOMAIN compatibility) :
       /\ \/ compatibility[branch][1] = <<>>
          \/ ~ListLess(versions[branch], compatibility[branch][1])
       /\ \/ compatibility[branch][2] = <<>>
          \/ ListLess(versions[branch], compatibility[branch][2])

\* The frames written in reply to the frame numbered f, in the order written.
SentFor(f) == SelectSeq(sent, LAMBDA r : r.frame = f)

ReplyIds(records) == [k \in 1..Len(records) |-> records[k].content_id]

\* The entries written, each as its content id and the build it is of.
EntriesWith(records, build) == [k \in 1..Len(records) |-> <<records[k].content_id, build>>]

EntriesSent(records) == [k \in 1..Len(records) |-> <<records[k].content_id, records[k].build>>]

\* The handler of a CLIENT_INFO_LIST request returned after its loop.
ListReturned ==
  /\ task.type = "PACKET_CONTENT_CLIENT_INFO_LIST"
  /\ task.pc = "get"
  /\ \E k \in 1..Len(returned) : returned[k] = task.frame

\* C14 as stated: the reply of a CLIENT_INFO_LIST request that returned holds
\* exactly the entries of the list that the rule of inclusion admits, in the
\* order of the list.
C14_ReplyIsCompatibleList ==
  ListReturned =>
    ReplyIds(SentFor(task.frame))
      = ReplyIds(SelectSeq(task.list,
                             LAMBDA e : Included(e.compatibility, task.versions)))

\* What the handler has written when it is between two entries of the list or
\* has returned: the bootstrap entry if it looked one up, then the entries it
\* has passed that are not that very entry and that the rule admits.
ListReplySoFar ==
  (IF task.bootstrap = None THEN <<>> ELSE <<<<task.bootstrap.content_id, task.bootstrap_build>>>>)
  \o EntriesWith(SelectSeq(SubSeq(task.list, 1, task.i - 1),
                         LAMBDA e : /\ ~(/\ task.bootstrap # None
                                         /\ e = task.bootstrap
                                         /\ task.list_build = task.bootstrap_build)
                                    /\ Included(e.compatibility, task.versions)),
               task.list_build)

\* C14, amended: the reply of a CLIENT_INFO_LIST request is the bootstrap
\* entry, if the handler sent one, followed in list order by exactly the
\* entries of the list, other than that very entry, that the rule of
\* inclusion admits.
C14_ReplyAfterBootstrap ==
  (/\ task.type = "PACKET_CONTENT_CLIENT_INFO_LIST"
   /\ task.pc \in {"list_iter", "get"})
    => EntriesSent(SentFor(task.frame)) = ListReplySoFar

\* A request returned whose list held an entry the client is compatible with,
\* which was written, and one it is not compatible with.
C14_Witness ==
  /\ ListReturned
  /\ task.bootstrap = None
  /\ Len(SentFor(task.frame)) > 0
  /\ \E k \in 1..Len(task.list) :
       /\ DOMAIN task.list[k].compatibility # {}
       /\ Included(task.list[k].compatibility, task.versions)
  /\ \E k \in 1..Len(task.list) : ~Included(task.list[k].compatibility, task.versions)

\* The handler of a CLIENT_INFO_LIST request is past the decoding of the
\* client's versions and has not returned.
ListPastDecoding ==
  /\ task.type = "PACKET_CONTENT_CLIENT_INFO_LIST"
  /\ task.pc \in {"list_capture", "list_iter", "send", "wait", "resumed_wait", "resumed"}

\* The version the specification reads from the bits of openttd_version, the
\* pair of its top byte and its low 24 bits.
VersionOfBits(top, low) ==
  IF top > 27
  THEN <<top - 16, low \div 1048576>>
  ELSE <<top \div 16, top % 16, low \div 1048576>>

RECURSIVE Dotted(_)
\* ".".join of the decimals of a non-empty list of natural numbers.
Dotted(version) ==
  IF Len(version) = 1 THEN Decimal(version[1])
  ELSE Decimal(version[1]) \o <<".">> \o Dotted(Tail(version))

\* The branches of the items of branch_versions.
BranchesOf(items) == {items[k][1] : k \in 1..Len(items)}

\* versions holds, for each item of branch_versions, a list of natural
\* numbers that written with dots is the version string of the item.
ParsedFrom(versions, items) ==
  /\ DOMAIN versions = BranchesOf(items)
  /\ \A k \in 1..Len(items) :
       /\ Len(versions[items[k][1]]) > 0
       /\ \A n \in 1..Len(versions[items[k][1]]) : versions[items[k][1]][n] \in Nat
       /\ Dotted(versions[items[k][1]]) = items[k][2]

\* No part of a version string of the items has a zero before its digits.
NoLeadingZero(items) ==
  \A k \in 1..Len(items) : \A n \in 1..Len(items[k][2]) :
    (/\ items[k][2][n] = "0"
     /\ (n = 1 \/ items[k][2][n - 1] = "."))
      => (n = Len(items[k][2]) \/ items[k][2][n + 1] = ".")

\* C15: once the handler has decoded the versions of the client, they are,
\* for an openttd_version other than 0xFFFFFFFF, vanilla alone with the
\* version [top byte - 16, bits 23..20] when the top byte is above 27 and
\* [bits 31..28, bits 27..24, bits 23..20] otherwise; and for 0xFFFFFFFF
\* the branches of branch_versions, each with the integers its dotted
\* version string names.
C15_VersionsDecoded ==
  ListPastDecoding =>
    IF task.request.openttd_version # <<255, 16777215>>
    THEN /\ DOMAIN task.versions = {"vanilla"}
         /\ task.versions["vanilla"] = VersionOfBits(task.request.openttd_version[1],
                                                    task.request.openttd_version[2])
    ELSE NoLeadingZero(task.request.branch_versions)
           => ParsedFrom(task.versions, task.request.branch_versions)

\* The handler decoded the version of a client from 12 on.
C15_Witness ==
  /\ ListPastDecoding
  /\ task.request.openttd_version # <<255, 16777215>>
  /\ task.request.openttd_version[1] > 27
  /\ task.request.openttd_version[2] >= 1048576

\* The handler decoded the version of a client before 12, and the versions
\* of a client that sent two branches.
C15_WitnessLegacy ==
  /\ ListPastDecoding
  /\ task.request.openttd_version[1] = 27
  /\ task.request.openttd_version[2] >= 1048576

C15_WitnessBranches ==
  /\ ListPastDecoding
  /\ task.request.openttd_version = <<255, 16777215>>
  /\ Len(task.request.branch_versions) = 2
  /\ NoLeadingZero(task.request.branch_versions)

\* The request of the specification's example: NewGRFs, 0x0A0B0000, which is
\* the top byte 0x0A and the low 24 bits 0x0B0000.
ExampleRequest ==
  /\ task.request.content_type = CONTENT_TYPE_NEWGRF
  /\ task.request.openttd_version = <<10, 11 * 65536>>

SinceZeroNine == [b \in {"vanilla"} |-> <<<<0, 9, 0>>, <<>>>>]

BeforeZeroTen == [b \in {"vanilla"} |-> <<<<>>, <<0, 10, 0>>>>]

\* Every entry of the list with the compatibility {vanilla: [[0,9,0], null]}
\* is in the reply and no entry with {vanilla: [null, [0,10,0]]} is.
ExampleReply ==
  \A k \in 1..Len(task.list) :
    /\ task.list[k].compatibility = SinceZeroNine
         => \E n \in 1..Len(sent) : /\ sent[n].frame = task.frame
                                     /\ sent[n].content_id = task.list[k].content_id
    /\ task.list[k].compatibility = BeforeZeroTen
         => \A n \in 1..Len(sent) : \/ sent[n].frame # task.frame
                                     \/ sent[n].content_id # task.list[k].content_id

\* C16 as stated: the request for NewGRFs with openttd_version 0x0A0B0000 is
\* decoded as vanilla [0, 10, 11]; when its handler has returned, the entry
\* compatible from 0.9.0 on is in the reply and the one compatible before
\* 0.10.0 is not.
C16_ExampleListing ==
  (ListReturned /\ ExampleRequest) =>
    /\ task.versions = [b \in {"vanilla"} |-> <<0, 10, 11>>]
    /\ ExampleReply

\* C16, amended: the request for NewGRFs with openttd_version 0x0A0B0000 is
\* decoded as vanilla [0, 10, 0]; when its handler has returned, the entry
\* compatible from 0.9.0 on is in the reply and the one compatible before
\* 0.10.0 is not.
C16_ExampleDecodesPatchZero ==
  (ListReturned /\ ExampleRequest) =>
    /\ task.versions = [b \in {"vanilla"} |-> <<0, 10, 0>>]
    /\ ExampleReply

\* The request returned, its list holding an entry of each compatibility.
C16_Witness ==
  /\ ListReturned
  /\ ExampleRequest
  /\ \E k \in 1..Len(task.list) : task.list[k].compatibility = SinceZeroNine
  /\ \E k \in 1..Len(task.list) : task.list[k].compatibility = BeforeZeroTen

\* A part of the dotted version strings is not numeric, as str.isnumeric()
\* has it.
NotNumeric(parts) == \E n \in 1..Len(parts) : ~IsNumeric(parts[n])

HasNonNumericPart(items) ==
  \E k \in 1..Len(items) : NotNumeric(SplitDots(items[k][2], 1, <<>>))

\* C17: once the handler of a CLIENT_INFO_LIST request with 0xFFFFFFFF and a
\* branch version with a part that is not numeric has run, it has returned
\* (the task goes on to the next frame), and no SERVER_INFO frame was or is
\* ever written for the request.
C17_NonNumericRefused ==
  (/\ task.type = "PACKET_CONTENT_CLIENT_INFO_LIST"
   /\ task.pc # "list"
   /\ task.request.openttd_version = <<255, 16777215>>
   /\ HasNonNumericPart(task.request.branch_versions))
    => /\ \E k \in 1..Len(returned) : returned[k] = task.frame
       /\ Len(SentFor(task.frame)) = 0

\* The bootstrap entry's frame is the first of the frames and the only one of
\* its content id.
FirstAndOnce(records, content_entry) ==
  /\ Len(records) > 0
  /\ records[1].content_id = content_entry.content_id
  /\ \A n \in 2..Len(records) : records[n].content_id # content_entry.content_id

\* C18: when the handler of a CLIENT_INFO_LIST request has returned, then, if
\* the request was for base graphics, a bootstrap unique id is configured and
\* the handler found its entry, the first frame of the reply is that entry's
\* and no other frame of the reply is; otherwise the reply is the entries of
\* the list that the rule of inclusion admits, in the order of the list.
C18_BootstrapFirstOnce ==
  ListReturned =>
    IF /\ task.request.content_type = CONTENT_TYPE_BASE_GRAPHICS
       /\ bootstrap_unique_id # <<>>
       /\ task.bootstrap # None
    THEN FirstAndOnce(SentFor(task.frame), task.bootstrap)
    ELSE ReplyIds(SentFor(task.frame))
           = ReplyIds(SelectSeq(task.list,
                                LAMBDA e : Included(e.compatibility, task.versions)))

\* The frames the specification gives for a file of size bytes: the header,
\* the data frames of 1457 bytes, the last one with what is left, which
\* together are the file, and one empty frame.
FileFrames(size) ==
  <<[part |-> "header", offset |-> 0, length |-> 0]>>
  \o [k \in 1..((size + 1456) \div 1457) |->
        [part |-> "data", offset |-> (k - 1) * 1457,
         length |-> IF k * 1457 <= size THEN 1457 ELSE size - (k - 1) * 1457]]
  \o <<[part |-> "end", offset |-> 0, length |-> 0]>>

FramesFor(content_id, frames) ==
  [k \in 1..Len(frames) |-> [content_id |-> content_id, payload |-> frames[k]]]

RECURSIVE ReplyTo(_)
\* The frames for the content ids of a request that hit, in the order of the
\* request.
ReplyTo(content_infos) ==
  IF content_infos = <<>> THEN <<>>
  ELSE (IF Head(content_infos).content_id \in DOMAIN by_content_id
        THEN FramesFor(Head(content_infos).content_id,
                    FileFrames(BlobSize(by_content_id[Head(content_infos).content_id])))
        ELSE <<>>)
       \o ReplyTo(Tail(content_infos))

FramesOf(records) ==
  [k \in 1..Len(records) |->
     [content_id |-> records[k].content_id, payload |-> records[k].payload]]

IsPrefix(a, b) == Len(a) <= Len(b) /\ a = SubSeq(b, 1, Len(a))

\* What was written for the request, the expected frames being given.
WrittenAsExpected(written, expected) ==
  /\ IsPrefix(written, expected)
  /\ (task.pc = "get" /\ \E k \in 1..Len(returned) : returned[k] = task.frame)
       => written = expected
  /\ task.pc = "stopped" => task.cause \in {"closing", "read", "get_stream"}

\* C19: the frames written for a CLIENT_CONTENT request are, for each of its
\* content ids that hit and in their order, the header frame, the data
\* frames of 1457 bytes (the last one shorter) that together hold the file,
\* and one empty frame: all of them once the handler has returned, a prefix
\* of them before, the handler giving up only when the connection is closing
\* or the storage fails to deliver.
C19_ContentFrames ==
  task.type = "PACKET_CONTENT_CLIENT_CONTENT"
    => WrittenAsExpected(FramesOf(SentFor(task.frame)), ReplyTo(task.content_infos))

\* The handler of a CLIENT_CONTENT request ended on an exception of the
\* storage: of opening the stream or of reading it.
StorageFailed ==
  /\ task.type = "PACKET_CONTENT_CLIENT_CONTENT"
  /\ task.cause \in {"with", "get_stream", "read"}

\* C20: a CLIENT_CONTENT handler that an exception of the storage ended has
\* left the task stopped on SocketClosed with the transport aborted, and
\* the frames written for the request end before the end of the file of
\* the content id it was at, none being of a later content id; a task that
\* was cancelled ended on the cancellation.
C20_StorageErrorCloses ==
  /\ StorageFailed
       => /\ task.raised = "SocketClosed"
          /\ task.pc = "stopped"
          /\ transport # "open"
          /\ IsPrefix(FramesOf(SentFor(task.frame)),
                      ReplyTo(SubSeq(task.content_infos, 1, task.i)))
          /\ Len(SentFor(task.frame)) < Len(ReplyTo(SubSeq(task.content_infos, 1, task.i)))
  /\ (task.type = "PACKET_CONTENT_CLIENT_CONTENT" /\ task.cause = "cancel")
       => /\ task.raised = "CancelledError"
          /\ task.pc = "cancelled"

\* A read of the stream failed while the request had a later content id that
\* hits.
C20_Witness ==
  /\ StorageFailed
  /\ task.cause = "read"
  /\ task.i < Len(task.content_infos)
  /\ task.content_infos[Len(task.content_infos)].content_id \in DOMAIN by_content_id
  /\ Len(SentFor(task.frame)) > 0

\* The task was cancelled while its handler waited in a send.
C20_WitnessCancelled ==
  /\ task.type = "PACKET_CONTENT_CLIENT_CONTENT"
  /\ task.cause = "cancel"
  /\ task.entry # None

\* C10: a build that did not crash raises exactly when some base is shared by
\* more than 255 loaded entries; once the reload of such a build has ended,
\* the views are still the ones published before it and nothing of the build
\* is live, and the reload of any other build that did not crash publishes.
C10_CollisionAbort ==
  \A c \in Callers :
    (worker[c].state = "done" /\ ~worker[c].crashed) =>
      /\ worker[c].result.raised
           <=> OverfullBase(LoadedEntries(disk, get_md5sum_mapping(storage)))
      /\ worker[c].result.raised =>
           /\ reload_pc[c] \in {"building", "raised"}
           /\ BootViewsLive
      /\ ~worker[c].result.raised => reload_pc[c] \in {"building", "returned"}

\* The reload of a tree of 256 entries of one base has raised.
C10_Witness ==
  \E c \in Callers :
    /\ reload_pc[c] = "raised"
    /\ ~worker[c].crashed
    /\ FileCount(disk) >= 256

(***************************************************************************)
(* Properties of the reload supervisor and of the connection.              *)
(***************************************************************************)
\* The callers between taking busy and releasing it.
Reloading == {c \in Callers : reload_pc[c] = "building"}

\* C1: at most one caller of reload() is between taking busy and releasing
\* busy, and at most one index build runs.
C1_AtMostOneReload ==
  /\ Cardinality(Reloading) <= 1
  /\ Cardinality({c \in Callers : worker[c].state = "running"}) <= 1

\* C2: every reply frame holds an entry looked up in the snapshot that was
\* live when the handler of its request started.
C2_RepliesFromStartSnapshot ==
  \A k \in 1..Len(sent) : sent[k].build = sent[k].start

\* The builds that completed: the build of the construction (number 0) and
\* the builds whose worker returned its tuple.
CompletedBuild(build) ==
  \/ /\ build = 0
     /\ ViewsAre(Pickled(ReloadHelperReload(BootTree, SmallStorage)))
  \/ \E c \in Returned :
       /\ worker[c].build = build
       /\ ViewsAre(Pickled(worker[c].result))

\* C3: in every state the event loop can run a handler in, the four live
\* views were bound by the same build, that build completed, and they are
\* the four views it returned.
C3_ViewsFromOneBuild ==
  /\ view_build.by_content_type = view_build.by_content_id
  /\ view_build.by_unique_id = view_build.by_content_id
  /\ view_build.by_unique_id_and_md5sum = view_build.by_content_id
  /\ CompletedBuild(view_build.by_content_id)

\* The views were rebound by a reload, to other views than the first ones,
\* and the build of another reload has returned a tuple that is not live.
C3_Witness ==
  /\ view_build.by_content_id > 0
  /\ ~ViewsAre(Pickled(ReloadHelperReload(BootTree, SmallStorage)))
  /\ \E c \in Returned :
       /\ reload_pc[c] = "building"
       /\ ~ViewsAre(Pickled(worker[c].result))

\* C4: when the build of a reload fails, the four live views are what they
\* were when that reload took busy, and busy is released.
C4_FailureKeepsViews ==
  [][\A c \in Callers :
       ReloadFail(c) => (LiveViews' = views_at_start[c] /\ reload_busy')]_vars

\* C5: handlers start for the frames in the order they were received, a
\* handler starts only after the handlers of all earlier frames returned, and
\* the reply frames are written in the order of their requests, each while
\* the handler of its request is the one running.
C5_OneRequestAtATime ==
  /\ \A k \in 1..Len(started) : started[k] = k
  /\ Len(returned) <= Len(started)
  /\ Len(started) <= Len(returned) + 1
  /\ \A k \in 1..Len(returned) : returned[k] = started[k]
  /\ \A k \in 1..Len(sent) :
       /\ sent[k].frame \in 1..Len(started)
       /\ k > 1 => sent[k - 1].frame <= sent[k].frame
  /\ (Len(started) > Len(returned) /\ Len(sent) > 0) =>
       sent[Len(sent)].frame <= started[Len(started)]

\* The handler of the first frame wrote a reply and is suspended in its next
\* send, while the second frame waits in the queue.
C5_Witness ==
  /\ task.pc = "wait"
  /\ task.frame = 1
  /\ Len(sent) > 0
  /\ Len(queue) > 0

(***************************************************************************)
(* Malformed frames.                                                       *)
(***************************************************************************)
\* The task takes the frame at the head of the queue.
TakesFrame == queue # <<>> /\ queue' = Tail(queue)

\* C21: every frame taken from the queue that is not a well-formed client
\* request (a packet type of PACKET_CONTENT_END or more, a server-only type, a
\* content-type byte that is none of the ten kinds, 0 and the terminator
\* included, a payload shorter or longer than its declared entries) has no
\* handler invoked for it and the transport closed.
C21_MalformedCloses ==
  [][(TakesFrame /\ Head(queue).request.data \in MalformedFrames)
       => (started' = started /\ transport' # "open")]_vars

\* The malformed frames that receive_packet rejects with a PacketInvalid are
\* handled as the claim says.
C21_RejectedCloses ==
  [][(TakesFrame /\ Head(queue).request.type = "invalid")
       => (started' = started /\ transport' # "open" /\ task'.pc = "stopped")]_vars

\* A frame with content-type byte 0 was taken: the task ended on the
\* ValueError of receive_packet and the transport is still open.
C21_TaskDiedOpen ==
  /\ task.raised = "ValueError"
  /\ task.cause = "receive_packet"
  /\ transport = "open"

(***************************************************************************)
(* Replies to the requests for keys.                                       *)
(***************************************************************************)
\* The snapshot holds an entry for the key.
HasEntry(type, content_info) == Lookup(type, content_info) \notin {None, KeyError}

\* The content ids of the entries of the keys, in the order of the keys.
IdsOf(type, content_infos) ==
  [k \in 1..Len(content_infos) |-> Lookup(type, content_infos[k]).content_id]

\* The replies that are due for the keys: one for each key with an entry.
RepliesDue(type, content_infos) ==
  IdsOf(type, SelectSeq(content_infos, LAMBDA content_info : HasEntry(type, content_info)))

\* The loop of a handler of CLIENT_INFO_ID, EXTID or EXTID_MD5 is at a key: the
\* replies written are those due for the keys before it.
RepliedSoFar ==
  task.pc = "loop"
    => ReplyIds(SentFor(task.frame))
         = RepliesDue(task.type, SubSeq(task.content_infos, 1, task.i - 1))

\* C22: the replies to CLIENT_INFO_ID, EXTID and EXTID_MD5 are exactly one per
\* requested key that has an entry in the snapshot, in request order; a key
\* without an entry, one whose content type has no entries at all included,
\* yields no reply, does not close the connection and does not keep the later
\* keys of the request from being served.
C22_OneReplyPerKnownKey ==
  /\ RepliedSoFar
  /\ task.cause # "KeyError"

\* The keys asked for before the first key whose content type the snapshot
\* has no entries of are replied to as the claim says.
C22_RepliesInOrder == RepliedSoFar

\* A request for an ai and a newgrf: the handler raised KeyError on the ai
\* key, the transport is closed and the newgrf entry was never sent.
C22_MissingTypeCloses ==
  /\ task.cause = "KeyError"
  /\ task.type = "PACKET_CONTENT_CLIENT_INFO_EXTID"
  /\ transport # "open"
  /\ SentFor(task.frame) = <<>>
  /\ HasEntry(task.type, task.content_infos[2])

(***************************************************************************)
(* The PROXY line.                                                         *)
(***************************************************************************)
\* The bytes are fed to frame reassembly: its frames are put on the queue and
\* its remainder is kept.
FedToReassembly(bytes) ==
  /\ queue' = queue \o Numbered(ReceiveData(buffered \o bytes).frames)
  /\ buffered' = ReceiveData(buffered \o bytes).data

\* The address of a client as the handlers compare it.
AddressOf(client) ==
  CASE client[1] = "4" -> [version |-> 4, packed |-> <<10, 1, 2, 3>>]
    [] IsMapped(client[2]) -> [version |-> 4, packed |-> <<10, 1, 2, 3>>]
    [] OTHER -> [version |-> 6, text |-> client[2]]

\* The first read begins with the PROXY line of the client.
FirstReadWithLine(client, piece) ==
  new_connection /\ data_received(ProxyRead(client, piece))

\* C23: with proxy-protocol enabled, a first read that begins with a complete
\* PROXY line makes (src_ip, src_port) the source and feeds exactly the bytes
\* after the line to frame reassembly; a first read that does not begin with
\* PROXY leaves the source and feeds all bytes; with proxy-protocol disabled
\* no bytes are taken as a preamble.
C23_ProxyLine ==
  [][/\ \A client \in Clients, piece \in Pieces :
          FirstReadWithLine(client, piece)
            => IF proxy_protocol
               THEN /\ source'.ip = AddressOf(client)
                    /\ source'.port = client[3]
                    /\ source'.addr = source.addr
                    /\ FedToReassembly(piece)
               ELSE /\ source' = source
                    /\ FedToReassembly(ProxyRead(client, piece))
     /\ \A data \in PlainReads :
          data_received(data) => (source' = source /\ FedToReassembly(data))]_vars

\* The first read was a PROXY line of 10.1.2.3:54321 and a frame: the handler
\* of the frame was started with that source.
C23_Witness ==
  /\ proxy_protocol
  /\ source.ip = [version |-> 4, packed |-> <<10, 1, 2, 3>>]
  /\ source.port = 54321
  /\ source.addr = PeerName
  /\ started # <<>>
  /\ task.request.data \in {AskOne, AskCrLf}

(***************************************************************************)
(* The unique id on the wire.                                              *)
(***************************************************************************)
\* The bytes in reverse order.
Reversed(bytes) == [k \in 1..Len(bytes) |-> bytes[Len(bytes) + 1 - k]]

\* C30: for every content type and stored unique id of four bytes, the
\* unique id read from the bytes SERVER_INFO carries is the stored one;
\* newgrf, scenario and heightmap ids are sent as the little-endian bytes of
\* their big-endian reading, the ids of the other types as they are stored.
C30_UniqueIdRoundTrip ==
  /\ call.function = "received"
       => /\ call.content_info.unique_id = call.unique_id
          /\ call.content_info.content_type = call.content_type
  /\ call.function \in {"sent", "received"}
       => call.wire = IF call.content_type \in {CONTENT_TYPE_NEWGRF, CONTENT_TYPE_SCENARIO,
                                                 CONTENT_TYPE_HEIGHTMAP}
                      THEN Reversed(call.unique_id)
                      ELSE call.unique_id

\* The newgrf id 00 01 80 ff went out as ff 80 01 00 and was read back.
C30_Witness ==
  /\ call.function = "received"
  /\ call.content_type = CONTENT_TYPE_NEWGRF
  /\ call.unique_id = <<0, 1, 128, 255>>
  /\ call.wire = <<255, 128, 1, 0>>
  /\ call.content_info.unique_id = <<0, 1, 128, 255>>

(***************************************************************************)
(* Safe names.                                                             *)
(***************************************************************************)
\* C29: for every name s, safe(s) holds only letters, digits, dots and
\* underscores, no two underscores in a row, neither begins nor ends with a
\* dot or an underscore, and safe(safe(s)) = safe(s).
C29_SafeName ==
  call.function = "returned"
    => /\ \A k \in 1..Len(call.new_name) : call.new_name[k] \in Kept \cup {"_"}
       /\ \A k \in 1..(Len(call.new_name) - 1) :
            ~(call.new_name[k] = "_" /\ call.new_name[k + 1] = "_")
       /\ call.new_name # <<>>
            => /\ call.new_name[1] \notin {".", "_"}
               /\ call.new_name[Len(call.new_name)] \notin {".", "_"}
       /\ call.again = call.new_name

\* The name ". a-" became "a": the dot and the underscores around it went.
C29_Witness ==
  /\ call.function = "returned"
  /\ call.name = <<".", " ", "a", "-">>
  /\ call.new_name = <<"a">>

(***************************************************************************)
(* The cache of versions.                                                  *)
(***************************************************************************)
\* The addresses the cache held before the last call and holds no more.
Evicted ==
  {ip \in Addresses :
     /\ \E k \in 1..Len(call.before) : call.before[k] = ip
     /\ \A k \in 1..Len(IP_TO_VERSION_CACHE) : IP_TO_VERSION_CACHE[k].key # ip}

\* The addresses the cache held before the last call, with the one written.
HeldOrWritten == {call.before[k] : k \in 1..Len(call.before)} \cup {call.ip}

\* C28: after every call of set_version_from_source the cache holds at most
\* the allowed number of entries; an entry evicted on overflow is that of the
\* address inserted earliest, never the entry just written.
C28_CacheBounded ==
  /\ Len(IP_TO_VERSION_CACHE) <= MaxCached
  /\ \A k \in 1..Len(IP_TO_VERSION_CACHE) :
       \A j \in 1..Len(IP_TO_VERSION_CACHE) :
         IP_TO_VERSION_CACHE[k].key = IP_TO_VERSION_CACHE[j].key => k = j
  /\ call.function = "set_version_from_source"
       => /\ \E k \in 1..Len(IP_TO_VERSION_CACHE) : IP_TO_VERSION_CACHE[k].key = call.ip
          /\ Evicted # {} <=> Cardinality(HeldOrWritten) > MaxCached
          /\ \A ip \in Evicted :
               /\ ip # call.ip
               /\ \A other \in HeldOrWritten : call.inserted[ip] <= call.inserted[other]

\* A fourth address was written into a full cache and the first went out.
C28_Witness ==
  /\ call.function = "set_version_from_source"
  /\ Len(call.before) = MaxCached
  /\ Evicted # {}
  /\ Len(IP_TO_VERSION_CACHE) = MaxCached

(***************************************************************************)
(* The balancer and the health of the CDN servers.                         *)
(***************************************************************************)
\* A response of balancer_handler is sent in this step.
BalancerResponds ==
  /\ Len(responses') = Len(responses) + 1
  /\ responses'[Len(responses')].handler = "balancer_handler"

\* The lines of the response sent in this step all hold the url, as it is or
\* with its "http://" rewritten.
LinesUse(cdn_url) ==
  \A k \in 1..Len(responses'[Len(responses')].lines) :
    responses'[Len(responses')].lines[k].cdn_url \in {cdn_url, Replaced(cdn_url)}

\* C24: every response to POST /bananas uses one CDN base URL for all its
\* lines: a member of the healthy set when that set is not empty, and the
\* fallback URL exactly when it is empty.
C24_OneHealthyUrl ==
  [][BalancerResponds
       => /\ CDN_ACTIVE_URL # <<>>
               => /\ \E k \in 1..Len(CDN_ACTIVE_URL) : LinesUse(CDN_ACTIVE_URL[k])
                  /\ ~LinesUse(CDN_FALLBACK_URL)
          /\ CDN_ACTIVE_URL = <<>> => LinesUse(CDN_FALLBACK_URL)]_vars

\* Both servers are healthy, and a response of two lines names one of them
\* in both.
C24_Witness ==
  /\ Len(CDN_ACTIVE_URL) = 2
  /\ health.pc = "sleep_30"
  /\ Len(responses) = 1
  /\ Len(responses[1].lines) = 2
  /\ responses[1].lines[1].cdn_url = responses[1].lines[2].cdn_url
  /\ responses[1].lines[1].cdn_url[2] \in {"cdn-a", "cdn-b"}

\* The servers whose probe of the last completed cycle brought status 200.
FoundHealthy == {CDN_URL[k] : k \in {j \in 1..Len(health.last) : health.last[j] = "200"}}

\* C25: the healthy set is empty until the first probe cycle completes; after
\* each completed cycle it is exactly the configured CDN URLs whose /healthz
\* returned 200 in that cycle.
C25_HealthySet ==
  /\ health.cycles = 0 => CDN_ACTIVE_URL = <<>>
  /\ health.cycles > 0
       => /\ {CDN_ACTIVE_URL[k] : k \in 1..Len(CDN_ACTIVE_URL)} = FoundHealthy
          /\ Len(CDN_ACTIVE_URL) = Cardinality(FoundHealthy)
          /\ Len(health.last) = Len(CDN_URL)

\* The second cycle completed with one server answering 200 and the other
\* answering 503.
C25_Witness ==
  /\ health.cycles = 2
  /\ health.pc = "sleep_30"
  /\ Len(CDN_ACTIVE_URL) = 1
  /\ \E k \in 1..2 : health.last[k] = "503"

\* The urls the handler chooses from.
Candidates ==
  IF CDN_ACTIVE_URL # <<>> THEN {CDN_ACTIVE_URL[k] : k \in 1..Len(CDN_ACTIVE_URL)}
  ELSE {CDN_FALLBACK_URL}

\* The lines of the response sent in this step hold a url chosen, rewritten
\* or not as told.
LinesHold(rewritten) ==
  \E cdn_url \in Candidates :
    \A k \in 1..Len(responses'[Len(responses')].lines) :
      responses'[Len(responses')].lines[k].cdn_url
        = IF rewritten THEN Replaced(cdn_url) ELSE cdn_url

\* C26: "http://" in the chosen URL is rewritten to "https://" if and only
\* if the request scheme is https, or header trust is enabled and
\* X-Forwarded-Proto is https; with trust disabled the header leaves
\* "http://" as it is.
C26_HttpsRewrite ==
  [][BalancerResponds
       => LinesHold(\/ responses'[Len(responses')].request.scheme = "https"
                    \/ /\ TRUST_FORWARDED_HEADERS
                       /\ responses'[Len(responses')].request.forwarded_proto = <<"https">>)]_vars

\* A request over http with X-Forwarded-Proto: https, the header being
\* trusted, was answered with https://cdn-a or https://fallback.
C26_Witness ==
  /\ TRUST_FORWARDED_HEADERS
  /\ Len(responses) = 1
  /\ responses[1].request.scheme = "http"
  /\ responses[1].request.forwarded_proto = <<"https">>
  /\ responses[1].lines[1].cdn_url \in {Replaced(CdnA), Replaced(Fallback)}

(***************************************************************************)
(* POST /reload                                                            *)
(***************************************************************************)
\* A reload secret is configured and the body's "secret" field equals it.
SecretMatches(data) ==
  /\ RELOAD_SECRET # None
  /\ data.kind = "object"
  /\ "secret" \in DOMAIN data.items
  /\ data.items.secret = RELOAD_SECRET

\* C27: POST /reload triggers a reload only when a reload secret is
\* configured and the body's secret field equals it, and then 204 is returned
\* after the reload has finished; in every other case the response is 404
\* and the request has not entered the supervisor.
C27_ReloadOr404 ==
  \A k \in 1..Len(responses) :
    IF SecretMatches(responses[k].body)
    THEN /\ responses[k].status \in {"pending", "204"}
         /\ responses[k].status = "204" => reload_pc[responses[k].caller] = "returned"
    ELSE /\ responses[k].status = "404"
         /\ reload_pc[responses[k].caller] = "idle"

\* What holds of C27: a request is in the supervisor only with the matching
\* secret, 204 is sent only for such a request and only once its reload has
\* returned, and 404 only for a request that does not match.
C27_ReloadOnlyOnMatch ==
  /\ \A c \in Callers :
       reload_pc[c] # "idle"
         => \E k \in 1..Len(responses) :
              responses[k].caller = c /\ SecretMatches(responses[k].body)
  /\ \A k \in 1..Len(responses) :
       /\ responses[k].status = "204"
            => /\ SecretMatches(responses[k].body)
               /\ reload_pc[responses[k].caller] = "returned"
       /\ responses[k].status = "404" => ~SecretMatches(responses[k].body)

\* What holds of C27: a request that is answered with 404, or that raises
\* before it reloads, changes neither the supervisor nor the live views.
C27_RefusedChangesNothing ==
  [][(/\ Len(responses') = Len(responses) + 1
      /\ responses'[Len(responses')].status \in {"404", "500"})
       => UNCHANGED <<supervisor, views>>]_vars

\* With a secret configured, a body that is no JSON object was answered with
\* 500, after an earlier request with the secret had reloaded and got 204.
C27_BodyRaises ==
  /\ RELOAD_SECRET = TheSecret
  /\ Len(responses) = 2
  /\ responses[1].status = "204"
  /\ responses[2].body = NotJson
  /\ responses[2].status = "500"
  /\ reload_pc[2] = "idle"

(***************************************************************************)
(* The frame writer                                                        *)
(***************************************************************************)
\* The frame is the built one with its first two bytes replaced by its
\* length, low byte first.
Finalized(frame, built) ==
  /\ Len(frame) = Len(built)
  /\ frame[1] + 256 * frame[2] = Len(frame)
  /\ SubSeq(frame, 3, Len(frame)) = SubSeq(built, 3, Len(built))

\* C31: every frame handed to the transport carries a 2-byte little-endian
\* prefix equal to its total length, which is at most 1460; finalizing a
\* longer frame fails with PacketTooBig and nothing of it is sent.
C31_FramePrefix ==
  call.function = "send_packet"
    => IF Len(call.built) > 1460
       THEN call.raised = "PacketTooBig" /\ call.written = <<>>
       ELSE /\ call.raised = ""
            /\ Len(call.written) = 1
            /\ Finalized(call.written[1], call.built)

\* A frame of exactly 1460 bytes was handed over, its prefix B4 05.
C31_Witness ==
  /\ call.function = "send_packet"
  /\ Len(call.written) = 1
  /\ Len(call.written[1]) = 1460
  /\ SubSeq(call.written[1], 1, 2) = <<180, 5>>

\* A frame of 1461 bytes was refused.
C31_WitnessTooBig ==
  /\ call.function = "send_packet"
  /\ Len(call.built) = 1461
  /\ call.raised = "PacketTooBig"
  /\ call.written = <<>>

(***************************************************************************)
(* The write-ready gate                                                    *)
(***************************************************************************)
\* The send of the task is suspended in "await self._can_write.wait()".
SendSuspended == task.pc = "wait"

\* C32: the gate is set when the connection is made, and while it is clear
\* no frame is written: a step that writes a frame starts with the gate set,
\* a send issued while the gate is clear suspends, and a suspended send
\* stays suspended until the gate is set or the task is cancelled.
C32_NoWriteWhilePaused ==
  [][/\ (started = <<>> /\ started' = <<>>) => can_write
     /\ sent' # sent => can_write
     /\ (task.pc = "send" /\ ~can_write /\ task' # task) => SendSuspended'
     /\ (SendSuspended /\ ~can_write')
          => (SendSuspended' \/ task'.pc = "cancelled")]_vars

\* The gate is clear after a frame was written, and the next send of the same
\* handler is suspended on it.
C32_Witness ==
  /\ ~can_write
  /\ Len(sent) = 1
  /\ SendSuspended
  /\ transport = "open"

(***************************************************************************)
(* The watchdog                                                            *)
(***************************************************************************)
\* A send is suspended on the gate and the transport is closing.
SuspendedOnClosing == SendSuspended /\ ~can_write /\ transport = "closing"

\* The send raised SocketClosed, which ended the task in the branch that
\* aborts the transport; the gate is set and the watchdog has returned.
ReleasedByWatchdog ==
  /\ task.pc = "stopped"
  /\ task.cause = "closing"
  /\ task.raised = "SocketClosed"
  /\ can_write
  /\ ~pause_task
  /\ transport # "open"

\* The task was cancelled by connection_lost; the gate is set and the
\* watchdog has returned.
CancelledWhileSuspended ==
  /\ task.pc = "cancelled"
  /\ task.raised = "CancelledError"
  /\ can_write
  /\ ~pause_task
  /\ transport = "closed"

\* A send that raises writes nothing.
RaisesWithoutWriting ==
  [][(task.pc = "resumed" /\ task'.raised = "SocketClosed") => sent' = sent]_vars

WorkerStopped == task.pc \in {"stopped", "cancelled"}

\* C34: every stream get_stream opened is released when its download ends,
\* however it ends: a stream is open only while the handler is inside the
\* with statement that opened it, and none is open once the dispatch worker
\* has stopped.
C34_StreamsReleased ==
  \A k \in 1..Len(opened) :
    opened[k].fp = "open" => (InWith /\ k = Len(opened) /\ ~WorkerStopped)

\* A download over s3 ended normally, the empty frame was written and the
\* handler returned, and the body of the stream is still open.
C34_OpenAfterDownload ==
  /\ storage_kind = "s3"
  /\ Len(returned) = 1
  /\ Len(opened) = 1
  /\ opened[1].fp = "open"
  /\ sent[Len(sent)].payload.part = "end"

\* With the local storage the file was opened, the with statement raised,
\* the worker stopped, and the file is still open.
C34_OpenAfterWith ==
  /\ storage_kind = "local"
  /\ WorkerStopped
  /\ task.cause = "with"
  /\ Len(opened) = 1
  /\ opened[1].fp = "open"

(***************************************************************************)
(* The byte stream of a peer, delivered in reads of any length.            *)
(***************************************************************************)
\* The bytes a read carries at most.
MaxRead == 60

RECURSIVE Flat(_)
\* b"".join(frames)
Flat(frames) == IF frames = <<>> THEN <<>> ELSE frames[1] \o Flat(Tail(frames))

\* The shortest frame there is, and frames whose length prefix is 0 and 1.
Shortest == <<3, 0, 0>>
PrefixZero == <<0, 0, 1>>
PrefixOne == <<1, 0, 2>>

\* The frames of a stream: one or two of them.
StreamFrames == {AskOne, AskCrLf, Shortest, PrefixZero, PrefixOne}

FramesSent ==
  {<<f>> : f \in StreamFrames} \cup {<<f, g>> : f \in StreamFrames, g \in StreamFrames}

\* What precedes the frames: nothing, or the PROXY line of a client.
Preambles == {<<>>} \cup {ProxyLine(client[1], client[2], client[3]) : client \in Clients}

\* The peer with its stream, of which nothing was read yet.
PeerStream(preamble, frames) ==
  [function |-> "stream", preamble |-> preamble, frames |-> frames,
   unread |-> preamble \o Flat(frames)]

InitStream ==
  /\ disk = ListTree
  /\ storage = SmallStorage
  /\ bootstrap_unique_id = <<>>
  /\ storage_kind = "local"
  /\ proxy_protocol \in BOOLEAN
  /\ click_web_routes(None, FALSE, None, <<Cdn("http://", "cdn")>>)
  /\ IP_TO_VERSION_CACHE = <<>>
  /\ call \in {PeerStream(preamble, frames) : preamble \in Preambles, frames \in FramesSent}
  /\ AfterConstruction(ListTree, SmallStorage)

\* The transport reads the next n bytes of the stream.
PeerSends(n) ==
  /\ n <= Len(call.unread)
  /\ Receives(SubSeq(call.unread, 1, n))
  /\ call' = [call EXCEPT !.unread = SubSeq(@, n + 1, Len(@))]

NextStream ==
  \/ \E n \in 1..MaxRead : PeerSends(n)
  \/ TaskGet
  \/ TaskLoop
  \/ TaskSend
  \/ TaskWrite
  \/ ConnectionLost

SpecStream == InitStream /\ [][NextStream]_vars

\* Every frame has the length its prefix says, 3 at least.
WellFormed(frames) ==
  \A k \in 1..Len(frames) :
    Len(frames[k]) >= 3 /\ frames[k][1] + 256 * frames[k][2] = Len(frames[k])

RECURSIVE Complete(_, _)
\* How many of the frames lie within the first n bytes of their stream.
Complete(frames, n) ==
  IF frames = <<>> \/ Len(frames[1]) > n THEN 0
  ELSE 1 + Complete(Tail(frames), n - Len(frames[1]))

\* The bytes of the stream read so far.
BytesRead(c) == Len(c.preamble) + Len(Flat(c.frames)) - Len(c.unread)

\* After n bytes of the frames were read, in whatever reads: the complete
\* frames were queued once each and in their order, and the buffer holds the
\* bytes of the frame that is not complete.
ReassemblesTo(frames, n, complete) ==
  /\ received = complete
  /\ buffered = SubSeq(Flat(frames), Len(Flat(SubSeq(frames, 1, complete))) + 1, n)
  /\ \A i \in 1..Len(queue) :
       /\ queue[i].frame = received - Len(queue) + i
       /\ queue[i].request.data = frames[queue[i].frame]

\* C35: for a stream of well-formed frames (length prefix >= 3) and any split
\* of it into reads, each complete frame is put on the queue exactly once and
\* in stream order, and after each read the buffer is exactly the bytes of
\* the incomplete trailing frame.
C35_SplitIndependent ==
  (call.function = "stream" /\ call.preamble = <<>> /\ WellFormed(call.frames))
    => ReassemblesTo(call.frames, BytesRead(call), Complete(call.frames, BytesRead(call)))

\* The first frame was queued, and a read ended two bytes into the second.
C35_Witness ==
  /\ call.function = "stream"
  /\ call.preamble = <<>>
  /\ call.frames = <<AskOne, Shortest>>
  /\ received = 1
  /\ Len(buffered) = 2
  /\ Len(call.unread) = 1

\* C37: receive_data returns for every buffer, also when the next length
\* prefix is 0, 1 or 2: no call of it is left that never ends.
C37_ReceiveDataReturns == task.pc # "never"

\* A buffer whose next prefix is 1: receive_data queued the one byte and
\* returned the two bytes after it.
C37_PrefixOneReturns ==
  /\ call.function = "stream"
  /\ call.frames = <<PrefixOne>>
  /\ call.unread = <<>>
  /\ received = 1
  /\ buffered = <<0, 2>>
  /\ task.pc # "never"

\* The client whose PROXY line the preamble is.
ClientOf(preamble) ==
  CHOOSE client \in Clients : ProxyLine(client[1], client[2], client[3]) = preamble

\* The source is the client of the PROXY line.
SourceIs(client) == source.ip = AddressOf(client) /\ source.port = client[3]

\* C40: with proxy-protocol enabled and a stream that starts with a PROXY v1
\* line, once the line was read, in whatever reads, the source is the client
\* of the line and the frames after the line are queued as they are when one
\* read carries the whole line.
C40_PreambleSplitIndependent ==
  (/\ call.function = "stream"
   /\ proxy_protocol
   /\ call.preamble # <<>>
   /\ WellFormed(call.frames)
   /\ BytesRead(call) >= Len(call.preamble))
    => /\ SourceIs(ClientOf(call.preamble))
       /\ ReassemblesTo(call.frames, BytesRead(call) - Len(call.preamble),
                        Complete(call.frames, BytesRead(call) - Len(call.preamble)))

\* The whole stream of a PROXY line and a frame was read, the source is the
\* client of the line, and no frame was queued.
C40_FramesLost ==
  /\ call.function = "stream"
  /\ proxy_protocol
  /\ call.preamble # <<>>
  /\ call.frames = <<AskOne>>
  /\ call.unread = <<>>
  /\ SourceIs(ClientOf(call.preamble))
  /\ transport = "open"
  /\ received = 0

\* The whole stream of a PROXY line and a frame was read in reads of which
\* the first carried the line: the source is the client and the frame was
\* queued.
C40_WholeLine ==
  /\ call.function = "stream"
  /\ proxy_protocol
  /\ call.preamble # <<>>
  /\ call.frames = <<AskOne>>
  /\ call.unread = <<>>
  /\ SourceIs(ClientOf(call.preamble))
  /\ received = 1

\* A step of the worker that closes or aborts the open transport.
WorkerShuts == transport = "open" /\ transport' = "closing" /\ task' # task

\* A step of connection_lost.
Lost == transport # "closed" /\ transport' = "closed"

\* The dispatch worker has returned or was cancelled.
WorkerEnded == task.pc \in {"stopped", "cancelled"}

\* C39: once the dispatch worker has closed or aborted the transport, or the
\* connection was lost, the worker has ended, and no frame, queued before or
\* arriving later, is dispatched to a handler after that.
C39_NoDispatchAfterEnd ==
  [][/\ (WorkerShuts \/ Lost) => WorkerEnded'
     /\ WorkerEnded => (WorkerEnded' /\ started' = started)]_vars

\* The worker closed the transport on a frame it rejected, the connection
\* was lost, and the frame queued behind the rejected one was not dispatched.
C39_Witness ==
  /\ task.pc = "stopped"
  /\ transport = "closed"
  /\ received = 2
  /\ Len(queue) = 1
  /\ started = <<>>

\* The connection was lost while a handler was suspended in a send: the
\* worker is cancelled with a frame still queued.
C39_CancelledWithQueue ==
  /\ task.pc = "cancelled"
  /\ transport = "closed"
  /\ queue # <<>>
  /\ Len(started) = 1

(***************************************************************************)
(* The data loop of send_PACKET_CONTENT_SERVER_CONTENT over a Stream that  *)
(* was created with a filesize and reads an object of some size.           *)
(***************************************************************************)
\* Stream.__init__: the count of bytes yet to come, and the position of fp.
Stream(filesize) == [filesize |-> filesize, position |-> 0]

\* Stream.read(count) of an object of size bytes: the stream after it.
StreamRead(stream, size, count) ==
  [filesize |-> stream.filesize - ReadLength(size, stream.position, count),
   position |-> stream.position + ReadLength(size, stream.position, count)]

\* The sizes of the filesize of an entry and of the stored object.
Sizes == {0, 1, 1456, 1457, 1458, 2914, 4096}

\* The call after the header frame was sent.
DataLoop(storage_class, filesize, size) ==
  [function |-> "send_PACKET_CONTENT_SERVER_CONTENT", pc |-> "while",
   storage |-> storage_class, size |-> size, stream |-> Stream(filesize),
   read |-> 0, data_frames |-> 0, end_frames |-> 0]

DataLoops ==
  {DataLoop(storage_class, filesize, size) :
     storage_class \in {"local", "s3"}, filesize \in Sizes, size \in Sizes}

\* "while not stream.eof()"
LoopWhile ==
  /\ call.function = "send_PACKET_CONTENT_SERVER_CONTENT"
  /\ call.pc = "while"
  /\ Returns([call EXCEPT !.pc = IF Eof(call.stream) THEN "end" ELSE "read"])

\* "data += stream.read(SEND_MTU - 3)"; the read of storage/s3.py raises
\* StreamReadError when the connection to the storage breaks.
LoopRead ==
  /\ call.function = "send_PACKET_CONTENT_SERVER_CONTENT"
  /\ call.pc = "read"
  /\ \/ Returns([call EXCEPT !.pc = "send",
                              !.read = ReadLength(call.size, call.stream.position,
                                                  SEND_MTU - 3),
                              !.stream = StreamRead(call.stream, call.size, SEND_MTU - 3)])
     \/ /\ call.storage = "s3"
        /\ Returns([call EXCEPT !.pc = "raised"])

\* "await self.send_packet(data)" of a data frame.
LoopSend ==
  /\ call.function = "send_PACKET_CONTENT_SERVER_CONTENT"
  /\ call.pc = "send"
  /\ Returns([call EXCEPT !.pc = "while",
                           !.data_frames = IF @ < MaxDataFrames THEN @ + 1 ELSE @])

\* The empty frame after the loop.
LoopEnd ==
  /\ call.function = "send_PACKET_CONTENT_SERVER_CONTENT"
  /\ call.pc = "end"
  /\ Returns([call EXCEPT !.pc = "done", !.end_frames = 1])

InitLoop == Calling(DataLoops)

NextLoop == LoopWhile \/ LoopRead \/ LoopSend \/ LoopEnd

\* The coroutine runs on while it can.
SpecLoop == InitLoop /\ [][NextLoop]_vars /\ WF_vars(NextLoop)

\* C38: the data loop ends for every stream: after finitely many data frames
\* eof() is true and the empty frame is sent, unless a read has raised.
C38_DataLoopTerminates ==
  <>(call.function = "send_PACKET_CONTENT_SERVER_CONTENT" /\ call.pc \in {"done", "raised"})

\* The object is as long as the filesize of the stream: the loop ends after
\* the data frames of the object.
C38_TerminatesWhenEqual ==
  (call.function = "send_PACKET_CONTENT_SERVER_CONTENT"
   /\ call.size = call.stream.filesize + call.stream.position)
    ~> (call.pc \in {"done", "raised"})

\* The object has ended before the count of the stream reached 0: the loop
\* has sent more data frames than the object has chunks, the last one empty.
C38_ReadsPastTheEnd ==
  /\ call.function = "send_PACKET_CONTENT_SERVER_CONTENT"
  /\ call.pc = "while"
  /\ call.stream.position = call.size
  /\ call.stream.filesize # 0
  /\ call.read = 0
  /\ call.data_frames = MaxDataFrames

(***************************************************************************)
(* The size check of _read_content_entry_version and the SERVER_INFO frame *)
(* of the entry it accepts.  A text is the sequence of its characters, as  *)
(* code points; the entries here name no region.                           *)
(***************************************************************************)
\* "validate=validate.Length(max=...)" of index/schema.py, in characters.
ContentEntryTest(data) ==
  /\ Len(data.name) <= 31
  /\ Len(data.version) <= 15
  /\ Len(data.url) <= 95
  /\ Len(data.description) <= 511
  /\ Len(data.regions) <= 10

RECURSIVE ClassificationSize(_)
\* "for key, value in data.get("classification", {}).items()": a value is a
\* str or a bool.
ClassificationSize(items) ==
  IF items = <<>> THEN 0
  ELSE Len(items[1].key) + 2
       + (IF items[1].type = "str" THEN Len(items[1].str) + 2 ELSE 3 + 2)
       + ClassificationSize(Tail(items))

RECURSIVE RegionsSize(_)
\* "for region in data.get("regions", [])"
RegionsSize(regions) ==
  IF regions = <<>> THEN 0 ELSE Len(regions[1]) + 2 + RegionsSize(Tail(regions))

\* The size the loader computes: len() of a str counts characters.
EntrySize(data) ==
  (1 + 4 + 4)
  + (Len(data.name) + 2) + (Len(data.version) + 2) + (Len(data.url) + 2)
  + (Len(data.description) + 2)
  + (4 + 2) + (16 + 2)
  + Len(data.dependencies) * 4
  + 1
  + ClassificationSize(data.classification)
  + RegionsSize(data.regions)

\* "if size > 1400: raise"
MaxEntrySize == 1400

\* _read_content_entry_version from the validation on: the entry, or the
\* exception.
ReadContentEntryVersion(data) ==
  IF ~ContentEntryTest(data) THEN [raised |-> "ValidationError"]
  ELSE IF EntrySize(data) > MaxEntrySize THEN [raised |-> "Exception"]
  ELSE [raised |-> "",
        entry |-> [content_type |-> CONTENT_TYPE_NEWGRF, content_id |-> <<0, 11259375>>,
                   filesize |-> <<0, 4096>>, name |-> data.name, version |-> data.version,
                   url |-> data.url, description |-> data.description,
                   unique_id |-> U1, md5sum |-> MA, dependencies |-> data.dependencies,
                   upload_date |-> <<95, 0>>,
                   classification |-> data.classification, regions |-> data.regions]]

\* The tag a classification adds, if any: a str adds itself, a true bool
\* its key.
TagsOfItem(item) ==
  IF item.type = "str" THEN {item.str} ELSE IF item.bool THEN {item.key} ELSE {}

\* a < b of two str
RECURSIVE StrLess(_, _)
StrLess(a, b) ==
  IF b = <<>> THEN FALSE
  ELSE IF a = <<>> THEN TRUE
  ELSE IF a[1] # b[1] THEN a[1] < b[1]
  ELSE StrLess(Tail(a), Tail(b))

\* list(sorted(tags))
SortedTags(tags) ==
  CHOOSE s \in [1..Cardinality(tags) -> tags] :
    \A i \in 1..Cardinality(tags), j \in 1..Cardinality(tags) :
      i < j => StrLess(s[i], s[j])

\* The tags _send_content_entry makes of the classification.
TagsOfEntry(content_entry) ==
  SortedTags(UNION {TagsOfItem(content_entry.classification[k]) :
                      k \in 1..Len(content_entry.classification)})

\* The texts of the metadata: ASCII, and a CJK character.
Texts(lengths) == {Run(c, n) : c \in {65, 20013}, n \in lengths}

Classifications ==
  {<<>>,
   <<[key |-> <<115, 101, 116>>, type |-> "str", str |-> <<114, 97, 105, 108>>,
      bool |-> FALSE]>>,
   <<[key |-> <<110, 115, 102, 119>>, type |-> "bool", str |-> <<>>, bool |-> TRUE],
     [key |-> <<115, 101, 116>>, type |-> "str", str |-> <<97, 105, 114>>,
      bool |-> FALSE]>>}

\* A version file as the loader has parsed it.  With every text at its limit
\* 176 dependencies make a size of 1398, and 177 one of 1402.
VersionFiles ==
  {[name |-> name, version |-> version, url |-> url, description |-> description,
    dependencies |-> Run(<<1, 11259375>>, n),
    classification |-> classification, regions |-> <<>>] :
     name \in Texts({1, 31}), version \in {Run(49, 15)}, url \in {Run(65, 95)},
     description \in Texts({0, 455, 511, 512}),
     n \in {0, 176, 177}, classification \in Classifications}

\* The loader reads the version file.
LoadEntry ==
  /\ call.function = "_read_content_entry_version"
  /\ Returns([function |-> "_send_content_entry", data |-> call.data,
              loaded |-> ReadContentEntryVersion(call.data)])

\* _send_content_entry of an entry that was accepted, up to send_packet.
SendEntry ==
  /\ call.function = "_send_content_entry"
  /\ call.loaded.raised = ""
  /\ Returns(Presend(ServerInfo(call.loaded.entry, TagsOfEntry(call.loaded.entry)),
                     write_presend(ServerInfo(call.loaded.entry,
                                              TagsOfEntry(call.loaded.entry)))))

InitEntry ==
  Calling({[function |-> "_read_content_entry_version", data |-> data] :
             data \in VersionFiles})

NextEntry == LoadEntry \/ SendEntry

SpecEntry == InitEntry /\ [][NextEntry]_vars

\* C36: an entry the size check accepts can be sent: its SERVER_INFO frame
\* with its tags, dependencies and upload date is at most SEND_MTU bytes
\* long, and write_presend does not raise PacketTooBig.
C36_AcceptedFits ==
  /\ (call.function = "_send_content_entry" /\ call.loaded.raised = "")
       => Len(ServerInfo(call.loaded.entry, TagsOfEntry(call.loaded.entry))) <= SEND_MTU
  /\ call.function = "send_packet" => call.raised = ""

\* An entry with a description of 511 CJK characters was accepted, and its
\* frame was refused as too big.
C36_TooBigAfterCheck ==
  /\ call.function = "send_packet"
  /\ call.raised = "PacketTooBig"

\* An entry of ASCII texts at their limits with 176 dependencies was
\* accepted with a size of 1398, and its frame of 1398 bytes was sent.
C36_AsciiFits ==
  /\ call.function = "send_packet"
  /\ call.raised = ""
  /\ Len(call.written[1]) = 1398

====
